---- MODULE Spec2Model ----
(***************************************************************************)
(* QKD intrusion-detection digital twin: the avalanche-photodiode detector *)
(* (Simulation/components.py), the sliding event window                    *)
(* (streams/circular_buffer.py), the offline micro-sifting                 *)
(* (data_preprocessing.py), the dual-model verdict cascade                 *)
(* (inference/ids_engine.py), the worker loop that joins them              *)
(* (gui/worker_thread.py), the event generator                             *)
(* (streams/quantum_producer.py), the density-matrix kernel                *)
(* (Simulation/core_real.py) and the forensic reporter                     *)
(* (Simulation/explain_logic.py).                                          *)
(*                                                                         *)
(* Units.  Time is counted in microseconds (dead time 10e-6 s = 10).       *)
(* Voltages are centivolts, jitters picoseconds, probabilities percent.    *)
(* A value drawn from np.random.normal(mu, sd) is represented by mu.       *)
(* A float ratio n/d is Ratio(n, d), d > 0; NaN and Inf stand for the     *)
(* floats nan and inf.  Python's None is None, any other value v Some(v).   *)
(***************************************************************************)
EXTENDS Integers, Sequences, FiniteSets

(***************************************************************************)
(* Bounds of the model.                                                    *)
(***************************************************************************)
\* Largest current_time handed to detect in a direct call.
MaxTime == 11
\* Capacity of the event window (EventBuffer(maxlen=...), 500 by default).
W == 2
\* Number of events pushed in one run of the window specification.
MaxPushes == 3
\* Number of events the worker loop receives in one run.
MaxEvents == 3
\* The worker evaluates the window at every 50th event
\* (event_counter % 50 == 0); the period is scaled down with the window and
\* kept below its capacity, as 50 is below 500.
EvalEvery == 1
\* Stream iterations counted between two fingerprints.
MaxTicks == 5

(***************************************************************************)
(* Program constants.                                                      *)
(***************************************************************************)
\* CONSTANTS['dead_time'] = 10e-6 s
DEAD_TIME == 10
\* APD_Detector.last_click_time = -1.0 s
INIT_LAST_CLICK == -1000000
\* IDSEngine confidence_threshold = 0.70
CONFIDENCE_THRESHOLD == 70
\* `t += 1e-6`, in microseconds
TICK == 1

None == [some |-> FALSE]
Some(v) == [some |-> TRUE, val |-> v]

Ratio(n, d) == [k |-> "num", n |-> n, d |-> d]
NaN == [k |-> "nan"]
Inf == [k |-> "inf"]

VARIABLES
    \* APD_Detector fields
    last_click_time, attack_mode, current_voltage, current_jitter,
    \* the last detect() call: its flux and time, attack_mode and
    \* last_click_time before it, the branch that answered, the value returned
    det_call,
    \* EventBuffer._buf, oldest first
    buf,
    \* every event pushed so far, in arrival order
    pushed,
    \* what the window was last asked since the last push: feat the value
    \* extract_features returned and sift its local counts; ret the value of
    \* is_ready or fill_level (a later query of the other kind clears it)
    feat, sift, ret,
    \* rows returned by calculate_v3_features since the last push
    v3,
    \* value returned by the last IDSEngine.infer call
    infer_out,
    \* IDSWorker._async_pipeline: event_counter, the records emitted through
    \* result_ready and the rows appended by _log_threat
    event_counter, emitted, threat_log,
    \* IDSWorker._running, and whether the loop of _async_pipeline has ended
    running, pipeline_done,
    \* stream iterations run, and those that yielded an Event
    ticks, yielded,
    \* the generator quantum_event_stream: whether its call bound, its
    \* arguments and its clock t
    stream,
    \* IDSWorker.state_controller
    state_controller,
    \* the last iteration of the generator: what it drew, used and yielded
    iter,
    \* the last IDSEngine(...) call: its arguments, the file system it met,
    \* the steps __init__ took, the exception raised and the object returned
    ids_init,
    \* a QState object: None before one is made, else its matrix rho
    qstate,
    \* the last QState call: its operation and argument, the exception
    \* raised, the value returned, rho before the call, and the number of
    \* calls made so far
    qcall,
    \* Simulation/explain_logic.py: the module's namespace, and the
    \* analyze_incident calls made so far, each with its arguments before and
    \* after the call and the text returned
    explain_module, explain_calls,
    \* the controller thread inside inject_attack: pc counts the fields of
    \* state_controller it has written (0 when it is not in a call)
    inject_pc,
    \* the last run of the sifting block of run_lab_experiment: the events it
    \* was given and the three QBER values it computed
    lab,
    \* IDSDashboard: where its thread is (unbuilt, idle, waiting in
    \* _on_attack_changed, aborted) and which worker self._worker is
    dashboard,
    \* every IDSWorker created, in order of creation: its modes, its _running
    \* flag, how far its thread is, the ticks of dead time left in its stream
    \* and what its last iteration did
    workers,
    \* the worker of every result_ready signal, in order of emission
    results

vars == <<last_click_time, attack_mode, current_voltage, current_jitter,
          det_call, buf, pushed, feat, sift, ret, v3, infer_out,
          event_counter, emitted, threat_log, running, pipeline_done,
          ticks, yielded, stream, state_controller, iter, ids_init,
          qstate, qcall, explain_module, explain_calls, inject_pc,
          lab, dashboard, workers, results>>

detVars  == <<last_click_time, attack_mode, current_voltage, current_jitter, det_call>>
bufVars  == <<buf, pushed, feat, sift, ret>>
idsVars  == <<infer_out, event_counter, emitted, threat_log, running, pipeline_done>>
tickVars == <<ticks, yielded>>
streamVars == <<stream, state_controller, iter>>
qVars    == <<qstate, qcall>>
explainVars == <<explain_module, explain_calls>>
guiVars  == <<dashboard, workers, results>>
libVars  == <<ids_init, qVars, explainVars, inject_pc, lab, guiVars>>
auxVars  == <<streamVars, libVars>>

(***************************************************************************)
(* Simulation/components.py                                                *)
(***************************************************************************)
\* A photon flux m * 10^e photons/s.
Flux(m, e) == [mant |-> m, exp |-> e]

FluxGT(a, b) == a.exp > b.exp \/ (a.exp = b.exp /\ a.mant > b.mant)

\* LaserSource.emit: the flux of an intensity mode.
EmitFlux(intensity_mode) ==
    IF intensity_mode = "single_photon" THEN Flux(1, -1)
    ELSE IF intensity_mode = "blinding" THEN Flux(1, 9)
    ELSE Flux(1, -1)

\* APD_Detector.saturation_limit = 1e7
SaturationLimit == Flux(1, 7)

AttackModes == {"none", "timeshift", "zeroday"}
Bases == {"rectilinear", "diagonal"}
FluxInputs == {Flux(1, -1), Flux(1, 7), Flux(1, 9)}

\* The random draws of one detect call: the dark-count roll, the dark bit,
\* the outcome of q_state.measure(basis), the 0.5% bit flip and the
\* efficiency roll of the branch.
\* (Draws that are not read, those after a dark count and the dark bit
\* without one, are held at one value.)
Rolls == [dark : {TRUE}, dark_bit : {0, 1}, outcome : {0}, flip : {FALSE}, hit : {FALSE}]
         \cup [dark : {FALSE}, dark_bit : {0}, outcome : {0, 1},
               flip : BOOLEAN, hit : BOOLEAN]

Detector == [last_click_time |-> last_click_time, attack_mode |-> attack_mode,
             current_voltage |-> current_voltage, current_jitter |-> current_jitter]

\* The saturation test of detect.
Saturated(incident_flux) == FluxGT(incident_flux, SaturationLimit)

\* Variant: the attack-mode tag is consulted before the saturation test.
ResponseBranch_ModeFirst(d, incident_flux) ==
    IF d.attack_mode = "timeshift" THEN "timeshift"
    ELSE IF d.attack_mode = "zeroday" THEN "zeroday"
    ELSE IF FluxGT(incident_flux, SaturationLimit) THEN "saturation"
    ELSE "normal"

\* The response branch detect takes once the dead-time gate and the dark
\* count are passed.
ResponseBranch(d, incident_flux) ==
    IF Saturated(incident_flux) THEN "saturation"
    ELSE IF d.attack_mode = "timeshift" THEN "timeshift"
    ELSE IF d.attack_mode = "zeroday" THEN "zeroday"
    ELSE "normal"

\* Variant: the gate closes one microsecond early.
DeadTimeGate_Short(d, current_time) ==
    current_time - d.last_click_time < DEAD_TIME - 1

\* The dead-time gate of detect.
DeadTimeGate(d, current_time) == current_time - d.last_click_time < DEAD_TIME

\* Variant: a detection missed past the dead-time gate stamps the time of
\* the call all the same.
Detect_StampOnMiss(d, incident_flux, current_time, r) ==
    IF DeadTimeGate(d, current_time)
    THEN [det |-> d, ret |-> None, branch |-> "dead_time"]
    ELSE IF r.dark
    THEN [det |-> [d EXCEPT !.current_voltage = 330, !.current_jitter = 1200,
                            !.last_click_time = current_time],
          ret |-> Some(r.dark_bit), branch |-> "dark_count"]
    ELSE
    LET measurement == IF r.flip THEN 1 - r.outcome ELSE r.outcome
        branch == ResponseBranch(d, incident_flux)
        voltage == IF branch = "saturation" THEN 900
                   ELSE IF branch = "zeroday" THEN 650 ELSE 330
        jitter == IF branch = "saturation" THEN 100
                  ELSE IF branch = "timeshift" THEN 50
                  ELSE IF branch = "zeroday" THEN 2800 ELSE 1200
    IN  [det |-> [d EXCEPT !.current_voltage = voltage, !.current_jitter = jitter,
                           !.last_click_time = current_time],
         ret |-> IF branch = "saturation" \/ r.hit THEN Some(measurement) ELSE None,
         branch |-> branch]

\* APD_Detector.detect: the detector after the call, the value returned and
\* the branch that returned it.
Detect(d, incident_flux, current_time, r) ==
    IF DeadTimeGate(d, current_time)
    THEN [det |-> d, ret |-> None, branch |-> "dead_time"]
    ELSE IF r.dark
    THEN [det |-> [d EXCEPT !.current_voltage = 330, !.current_jitter = 1200,
                            !.last_click_time = current_time],
          ret |-> Some(r.dark_bit), branch |-> "dark_count"]
    ELSE
    LET measurement == IF r.flip THEN 1 - r.outcome ELSE r.outcome
        branch == ResponseBranch(d, incident_flux)
        fired(dd) == [det |-> [dd EXCEPT !.last_click_time = current_time],
                      ret |-> Some(measurement), branch |-> branch]
        missed(dd) == [det |-> dd, ret |-> None, branch |-> branch]
    IN  IF branch = "saturation"
        THEN fired([d EXCEPT !.current_voltage = 900, !.current_jitter = 100])
        ELSE IF branch = "timeshift"
        THEN LET dd == [d EXCEPT !.current_voltage = 330, !.current_jitter = 50]
             IN  IF r.hit THEN fired(dd) ELSE missed(dd)
        ELSE IF branch = "zeroday"
        THEN LET dd == [d EXCEPT !.current_voltage = 650, !.current_jitter = 2800]
             IN  IF r.hit THEN fired(dd) ELSE missed(dd)
        ELSE LET dd == [d EXCEPT !.current_voltage = 330, !.current_jitter = 1200]
             IN  IF r.hit THEN fired(dd) ELSE missed(dd)

\* APD_Detector.set_attack_mode
SetAttackMode(mode) ==
    /\ attack_mode' = mode
    /\ UNCHANGED <<last_click_time, current_voltage, current_jitter, det_call>>
    /\ UNCHANGED <<bufVars, v3, idsVars, tickVars, auxVars>>

\* One call of APD_Detector.detect with arbitrary arguments.
DetectCall(incident_flux, basis, current_time, r) ==
    LET res == Detect(Detector, incident_flux, current_time, r)
    IN  /\ last_click_time' = res.det.last_click_time
        /\ attack_mode'     = res.det.attack_mode
        /\ current_voltage' = res.det.current_voltage
        /\ current_jitter'  = res.det.current_jitter
        /\ det_call' = [called |-> TRUE, flux |-> incident_flux,
                        time |-> current_time, mode |-> attack_mode,
                        pre_last_click |-> last_click_time,
                        branch |-> res.branch, ret |-> res.ret]
        /\ UNCHANGED <<bufVars, v3, idsVars, tickVars, auxVars>>

NoCall == [called |-> FALSE]

InitDetector ==
    /\ last_click_time = INIT_LAST_CLICK
    /\ attack_mode = "none"
    /\ current_voltage = 0
    /\ current_jitter = 0
    /\ det_call = NoCall

(***************************************************************************)
(* streams/circular_buffer.py                                              *)
(***************************************************************************)
Event(ab, aB, bB, bb, v, j) ==
    [alice_bit |-> ab, alice_basis |-> aB, bob_basis |-> bB, bob_bit |-> bb,
     detector_voltage |-> v, timing_jitter |-> j]

\* Events fed to the window: with sender bit 0, every combination of the
\* two bases and the receiver bit (matched and mismatched bases, equal and
\* different bits) with the telemetry of normal operation; a basis-matched
\* error with sender bit 1; and an event with linear-mode telemetry.
WindowEvents ==
    {Event(0, aB, bB, bb, 330, 1200) :
        aB \in {0, 1}, bB \in {0, 1}, bb \in {0, 1}}
    \cup {Event(1, 0, 0, 0, 330, 1200), Event(1, 1, 1, 1, 900, 100)}

\* Variant: a full buffer drops its newest event to make room.
BufPush_EvictNewest(b, event) ==
    IF W = 0 THEN b
    ELSE IF Len(b) = W THEN Append(SubSeq(b, 1, W - 1), event)
    ELSE Append(b, event)

\* Variant: a deque without maxlen.
BufPush_NoEvict(b, event) == Append(b, event)

\* EventBuffer.push: deque(maxlen=W).append
BufPush(b, event) ==
    IF W = 0 THEN b
    ELSE IF Len(b) = W THEN Append(Tail(b), event)
    ELSE Append(b, event)

\* A window that reports ready as soon as it holds an event.
IsReady_NonEmpty(b) == Len(b) > 0

\* EventBuffer.is_ready
IsReady(b) == Len(b) = W

\* EventBuffer.fill_level
FillLevel(b) == Len(b)

\* ndarray.sum() of a boolean mask
MaskSum(mask) == Cardinality({i \in DOMAIN mask : mask[i]})

RECURSIVE SeqSum(_)
SeqSum(s) == IF s = <<>> THEN 0 ELSE Head(s) + SeqSum(Tail(s))

\* Variant: the division without its guard.
SafeDiv_Plain(n, d) == Ratio(n, d)

\* `n / d if d > 0 else 0.0`
SafeDiv(n, d) == IF d > 0 THEN Ratio(n, d) ELSE Ratio(0, 1)

\* Variant: the error mask without `& match`.
SiftCounts_NoMatchMask(events) ==
    LET idx      == DOMAIN events
        match    == [i \in idx |-> events[i].alice_basis = events[i].bob_basis]
        error    == [i \in idx |-> events[i].alice_bit # events[i].bob_bit]
        is_rect  == [i \in idx |-> events[i].alice_basis = 0]
        is_diag  == [i \in idx |-> events[i].alice_basis = 1]
    IN  [n_sifted  |-> MaskSum(match),
         n_err     |-> MaskSum(error),
         n_err_r   |-> MaskSum([i \in idx |-> error[i] /\ is_rect[i]]),
         n_err_d   |-> MaskSum([i \in idx |-> error[i] /\ is_diag[i]]),
         n_count_r |-> MaskSum([i \in idx |-> match[i] /\ is_rect[i]]),
         n_count_d |-> MaskSum([i \in idx |-> match[i] /\ is_diag[i]])]

\* The sifting block of extract_features: the six counts of a list of events.
SiftCounts(events) ==
    LET idx      == DOMAIN events
        match    == [i \in idx |-> events[i].alice_basis = events[i].bob_basis]
        error    == [i \in idx |-> events[i].alice_bit # events[i].bob_bit /\ match[i]]
        is_rect  == [i \in idx |-> events[i].alice_basis = 0]
        is_diag  == [i \in idx |-> events[i].alice_basis = 1]
    IN  [n_sifted  |-> MaskSum(match),
         n_err     |-> MaskSum(error),
         n_err_r   |-> MaskSum([i \in idx |-> error[i] /\ is_rect[i]]),
         n_err_d   |-> MaskSum([i \in idx |-> error[i] /\ is_diag[i]]),
         n_count_r |-> MaskSum([i \in idx |-> match[i] /\ is_rect[i]]),
         n_count_d |-> MaskSum([i \in idx |-> match[i] /\ is_diag[i]])]

\* Variant: the readiness test is `if not self._buf` (an empty buffer).
ExtractFeatures_Partial(b) ==
    IF Len(b) = 0 THEN None
    ELSE
    LET n == Len(b)
        c == SiftCounts(b)
    IN  Some(
        [qber_overall      |-> SafeDiv(c.n_err, c.n_sifted),
         qber_rectilinear  |-> SafeDiv(c.n_err_r, c.n_count_r),
         qber_diagonal     |-> SafeDiv(c.n_err_d, c.n_count_d),
         detector_voltage  |-> Ratio(SeqSum([i \in 1..n |-> b[i].detector_voltage]), n),
         timing_jitter     |-> Ratio(SeqSum([i \in 1..n |-> b[i].timing_jitter]), n),
         photon_count_rate |-> Ratio(c.n_sifted, n)])

\* EventBuffer.extract_features: None, or the six-value fingerprint.
ExtractFeatures(b) ==
    IF ~IsReady(b) THEN None
    ELSE
    LET n == Len(b)
        c == SiftCounts(b)
    IN  Some(
        [qber_overall      |-> SafeDiv(c.n_err, c.n_sifted),
         qber_rectilinear  |-> SafeDiv(c.n_err_r, c.n_count_r),
         qber_diagonal     |-> SafeDiv(c.n_err_d, c.n_count_d),
         detector_voltage  |-> Ratio(SeqSum([i \in 1..n |-> b[i].detector_voltage]), n),
         timing_jitter     |-> Ratio(SeqSum([i \in 1..n |-> b[i].timing_jitter]), n),
         photon_count_rate |-> Ratio(c.n_sifted, n)])

\* buffer.push(event)
Push(event) ==
    /\ Len(pushed) < MaxPushes
    /\ buf' = BufPush(buf, event)
    /\ pushed' = Append(pushed, event)
    /\ feat' = None /\ sift' = None /\ ret' = None /\ v3' = None
    /\ UNCHANGED <<detVars, idsVars, tickVars, auxVars>>

\* buffer.extract_features()
ExtractFeaturesCall ==
    /\ feat' = Some(ExtractFeatures(buf))
    /\ sift' = IF IsReady(buf) THEN Some(SiftCounts(buf)) ELSE None
    /\ ret' = None
    /\ UNCHANGED <<buf, pushed, v3, detVars, idsVars, tickVars, auxVars>>

\* buffer.is_ready
IsReadyCall ==
    /\ ret' = Some([op |-> "is_ready", value |-> IsReady(buf)])
    /\ feat' = None /\ sift' = None /\ v3' = None
    /\ UNCHANGED <<buf, pushed, detVars, idsVars, tickVars, auxVars>>

\* buffer.fill_level
FillLevelCall ==
    /\ ret' = Some([op |-> "fill_level", value |-> FillLevel(buf)])
    /\ feat' = None /\ sift' = None /\ v3' = None
    /\ UNCHANGED <<buf, pushed, detVars, idsVars, tickVars, auxVars>>

InitBuffer ==
    /\ buf = <<>>
    /\ pushed = <<>>
    /\ feat = None /\ sift = None /\ ret = None

(***************************************************************************)
(* data_preprocessing.py                                                   *)
(***************************************************************************)
\* A raw row as data_generation.py writes it: the event with the derived
\* columns basis_match and error.
RawRow(e) ==
    [alice_bit |-> e.alice_bit, alice_basis |-> e.alice_basis,
     bob_basis |-> e.bob_basis, bob_bit |-> e.bob_bit,
     basis_match |-> IF e.alice_basis = e.bob_basis THEN 1 ELSE 0,
     error |-> IF e.alice_bit # e.bob_bit THEN 1 ELSE 0,
     detector_voltage |-> e.detector_voltage, timing_jitter |-> e.timing_jitter]

RawRows(events) == [i \in DOMAIN events |-> RawRow(events[i])]

\* Variant: the raw error column, not restricted to sifted rows.
SiftedError_NoSiftMask(row) == row.error % 2 = 1

\* `df['error'] & sifted_mask`: an integer column and-ed with a boolean one.
SiftedError(row) == (row.error % 2 = 1) /\ (row.basis_match # 0)

\* Series.rolling(window).sum() at row k: NaN until the window is complete.
RollingSum(col, k, window) ==
    IF k < window THEN NaN
    ELSE Ratio(SeqSum([i \in 1..window |-> col[k - window + i]]), 1)

\* Float division of two rolling sums.
FloatDiv(a, b) ==
    IF a = NaN \/ b = NaN THEN NaN
    ELSE IF b.n = 0 THEN (IF a.n = 0 THEN NaN ELSE Inf)
    ELSE Ratio(a.n, b.n)

\* .fillna(0.0).replace([np.inf, -np.inf], 0.0)
FillNaReplaceInf(x) == IF x = NaN \/ x = Inf THEN Ratio(0, 1) ELSE x

\* calculate_v3_features: the three QBER columns of every row.
CalculateV3Features(df, window_size) ==
    LET idx == DOMAIN df
        bit(c) == IF c THEN 1 ELSE 0
        sifted       == [i \in idx |-> df[i].basis_match]
        is_rect      == [i \in idx |-> df[i].alice_basis = 0]
        is_diag      == [i \in idx |-> df[i].alice_basis = 1]
        sifted_mask  == [i \in idx |-> df[i].basis_match # 0]
        sifted_error == [i \in idx |-> SiftedError(df[i])]
        error_rect   == [i \in idx |-> bit(sifted_error[i] /\ is_rect[i])]
        error_diag   == [i \in idx |-> bit(sifted_error[i] /\ is_diag[i])]
        error_total  == [i \in idx |-> bit(sifted_error[i])]
        count_rect   == [i \in idx |-> bit(sifted_mask[i] /\ is_rect[i])]
        count_diag   == [i \in idx |-> bit(sifted_mask[i] /\ is_diag[i])]
        roll(col, k) == RollingSum(col, k, window_size)
    IN  [k \in idx |->
          [qber_overall     |-> FillNaReplaceInf(FloatDiv(roll(error_total, k), roll(sifted, k))),
           qber_rectilinear |-> FillNaReplaceInf(FloatDiv(roll(error_rect, k), roll(count_rect, k))),
           qber_diagonal    |-> FillNaReplaceInf(FloatDiv(roll(error_diag, k), roll(count_diag, k))),
           detector_voltage |-> df[k].detector_voltage,
           timing_jitter    |-> df[k].timing_jitter]]

\* calculate_v3_features(df, window_size=W) on the rows of the events pushed.
CalcV3Call ==
    /\ pushed # <<>>
    /\ v3' = Some(CalculateV3Features(RawRows(pushed), W))
    /\ ret' = None
    /\ UNCHANGED <<buf, pushed, feat, sift, detVars, idsVars, tickVars, auxVars>>

(***************************************************************************)
(* Simulation/test_physics_vs_ai.py: the sifting block of                  *)
(* run_lab_experiment, on the lists of the events received.                *)
(***************************************************************************)
\* Variant: the error mask without `& match`.
LabSift_NoMatchMask(events) ==
    LET idx     == DOMAIN events
        match   == [i \in idx |-> events[i].alice_basis = events[i].bob_basis]
        error   == [i \in idx |-> events[i].alice_bit # events[i].bob_bit]
        is_rect == [i \in idx |-> events[i].alice_basis = 0]
        is_diag == [i \in idx |-> events[i].alice_basis = 1]
        n_sifted == MaskSum(match)
        count_r == MaskSum([i \in idx |-> match[i] /\ is_rect[i]])
        count_d == MaskSum([i \in idx |-> match[i] /\ is_diag[i]])
    IN  [qber_overall |->
            IF n_sifted > 0 THEN Ratio(MaskSum(error), n_sifted) ELSE Ratio(0, 1),
         qber_rectilinear |->
            IF count_r > 0
            THEN Ratio(MaskSum([i \in idx |-> error[i] /\ is_rect[i]]), count_r)
            ELSE Ratio(0, 1),
         qber_diagonal |->
            IF count_d > 0
            THEN Ratio(MaskSum([i \in idx |-> error[i] /\ is_diag[i]]), count_d)
            ELSE Ratio(0, 1)]

\* qber_o, qber_r, qber_d of run_lab_experiment.
LabSift(events) ==
    LET idx     == DOMAIN events
        match   == [i \in idx |-> events[i].alice_basis = events[i].bob_basis]
        error   == [i \in idx |-> events[i].alice_bit # events[i].bob_bit /\ match[i]]
        is_rect == [i \in idx |-> events[i].alice_basis = 0]
        is_diag == [i \in idx |-> events[i].alice_basis = 1]
        n_sifted == MaskSum(match)
        count_r == MaskSum([i \in idx |-> match[i] /\ is_rect[i]])
        count_d == MaskSum([i \in idx |-> match[i] /\ is_diag[i]])
    IN  [qber_overall |->
            IF n_sifted > 0 THEN Ratio(MaskSum(error), n_sifted) ELSE Ratio(0, 1),
         qber_rectilinear |->
            IF count_r > 0
            THEN Ratio(MaskSum([i \in idx |-> error[i] /\ is_rect[i]]), count_r)
            ELSE Ratio(0, 1),
         qber_diagonal |->
            IF count_d > 0
            THEN Ratio(MaskSum([i \in idx |-> error[i] /\ is_diag[i]]), count_d)
            ELSE Ratio(0, 1)]

NoLabRun == [called |-> FALSE]

\* The sifting block run on the events the window holds.
LabSiftCall ==
    /\ lab' = [called |-> TRUE, events |-> buf, qber |-> LabSift(buf)]
    /\ UNCHANGED <<detVars, bufVars, v3, idsVars, tickVars, streamVars, ids_init,
                   qVars, explainVars, inject_pc, guiVars>>

\* Events of the three-way comparison: matched and mismatched bases, in
\* both bases, with equal and with different bits.
SiftEvents ==
    {Event(0, 0, 0, 0, 330, 1200), Event(0, 0, 0, 1, 330, 1200),
     Event(0, 1, 1, 0, 330, 1200), Event(0, 1, 1, 1, 330, 1200),
     Event(0, 0, 1, 1, 330, 1200), Event(0, 1, 0, 0, 330, 1200)}

(***************************************************************************)
(* inference/ids_engine.py                                                 *)
(***************************************************************************)
\* RandomForest classes_, in sklearn's sorted order.
Classes == <<"attack_blinding", "attack_intercept", "attack_timeshift", "normal">>

RECURSIVE SeqMax(_)
SeqMax(s) == IF Len(s) = 1 THEN s[1]
             ELSE LET m == SeqMax(Tail(s)) IN IF s[1] >= m THEN s[1] ELSE m

\* ndarray.argmax(): the first index holding the maximum.
ArgMax(s) == CHOOSE i \in DOMAIN s :
                /\ s[i] = SeqMax(s)
                /\ \A j \in DOMAIN s : s[j] = SeqMax(s) => i <= j

\* Cyclic shift of a probability vector by k places.
Rot(s, k) == [i \in DOMAIN s |-> s[((i - 1 + k) % Len(s)) + 1]]

\* predict_proba() outputs tried, in percent: every vector over the four
\* classes that sums to 100 with its entries on a grid holding the
\* threshold and its two neighbours; ties are among them.
ProbaGrid == {0, 10, 20, 25, 29, 30, 31, 40, 50, 60, 69, 70, 71, 100}
ProbaInputs == {p \in [1..4 -> ProbaGrid] : p[1] + p[2] + p[3] + p[4] = 100}

\* OneClassSVM.predict() outputs: +1 in-distribution, -1 anomaly.
SvmInputs == {1, -1}

\* The verdict strings of infer.  The zero-day string holds an em dash,
\* kept apart in the field sep.
ZeroDayVerdict == [text |-> "POTENTIAL ZERO-DAY", sep |-> "em dash",
                   rest |-> "ESCALATE TO OPERATOR"]
UncertainVerdict(rf_pred) == [text |-> "UNCERTAIN", label |-> rf_pred]
LabelVerdict(label) == [text |-> label]

\* Variant: a confidence equal to the threshold counts as low.
CombinedVerdict_Inclusive(svm_anomaly, rf_pred, rf_conf) ==
    IF svm_anomaly /\ rf_pred = "normal" /\ rf_conf <= CONFIDENCE_THRESHOLD
    THEN [verdict |-> ZeroDayVerdict, flagged |-> TRUE]
    ELSE IF rf_conf <= CONFIDENCE_THRESHOLD
    THEN [verdict |-> UncertainVerdict(rf_pred), flagged |-> TRUE]
    ELSE IF rf_pred # "normal"
    THEN [verdict |-> LabelVerdict(rf_pred), flagged |-> TRUE]
    ELSE [verdict |-> LabelVerdict("normal"), flagged |-> FALSE]

\* Variant: an UNCERTAIN verdict is not flagged.
CombinedVerdict_UncertainUnflagged(svm_anomaly, rf_pred, rf_conf) ==
    IF svm_anomaly /\ rf_pred = "normal" /\ rf_conf < CONFIDENCE_THRESHOLD
    THEN [verdict |-> ZeroDayVerdict, flagged |-> TRUE]
    ELSE IF rf_conf < CONFIDENCE_THRESHOLD
    THEN [verdict |-> UncertainVerdict(rf_pred), flagged |-> FALSE]
    ELSE IF rf_pred # "normal"
    THEN [verdict |-> LabelVerdict(rf_pred), flagged |-> TRUE]
    ELSE [verdict |-> LabelVerdict("normal"), flagged |-> FALSE]

\* Variant: an out-of-distribution sample labelled normal is escalated at
\* any confidence.
CombinedVerdict_NoveltyAlone(svm_anomaly, rf_pred, rf_conf) ==
    IF svm_anomaly /\ rf_pred = "normal"
    THEN [verdict |-> ZeroDayVerdict, flagged |-> TRUE]
    ELSE IF rf_conf < CONFIDENCE_THRESHOLD
    THEN [verdict |-> UncertainVerdict(rf_pred), flagged |-> TRUE]
    ELSE IF rf_pred # "normal"
    THEN [verdict |-> LabelVerdict(rf_pred), flagged |-> TRUE]
    ELSE [verdict |-> LabelVerdict("normal"), flagged |-> FALSE]

\* Step 3 of infer: the verdict and the flag of a novelty result, a label
\* and a confidence.
CombinedVerdict(svm_anomaly, rf_pred, rf_conf) ==
    IF svm_anomaly /\ rf_pred = "normal" /\ rf_conf < CONFIDENCE_THRESHOLD
    THEN [verdict |-> ZeroDayVerdict, flagged |-> TRUE]
    ELSE IF rf_conf < CONFIDENCE_THRESHOLD
    THEN [verdict |-> UncertainVerdict(rf_pred), flagged |-> TRUE]
    ELSE IF rf_pred # "normal"
    THEN [verdict |-> LabelVerdict(rf_pred), flagged |-> TRUE]
    ELSE [verdict |-> LabelVerdict("normal"), flagged |-> FALSE]

\* IDSEngine.infer, given what the two models answer for the features.
Infer(svm_result, rf_proba) ==
    LET svm_anomaly == svm_result = -1
        rf_pred     == Classes[ArgMax(rf_proba)]
        rf_conf     == SeqMax(rf_proba)
        v           == CombinedVerdict(svm_anomaly, rf_pred, rf_conf)
    IN  [verdict       |-> v.verdict,
         rf_prediction |-> rf_pred,
         rf_confidence |-> rf_conf,
         class_probs   |-> [i \in 1..Len(Classes) |-> rf_proba[i]],
         svm_anomaly   |-> svm_anomaly,
         flagged       |-> v.flagged]

\* engine.infer(features)
InferCall(svm_result, rf_proba) ==
    /\ infer_out' = Some(Infer(svm_result, rf_proba))
    /\ UNCHANGED <<event_counter, emitted, threat_log, running, pipeline_done>>
    /\ UNCHANGED <<detVars, bufVars, v3, tickVars, auxVars>>

(***************************************************************************)
(* Simulation/explain_logic.py: analyze_incident.  The vitals are integers *)
(* in thousandths (voltage in mV, jitter in ps) and qber in units of 1e-5, *)
(* so that the two-decimal formats round.  The text is the sequence of     *)
(* the lines joined by "\n"; a line is its fixed wording and the value     *)
(* formatted into it.                                                      *)
(***************************************************************************)
\* analyze_incident calls in one run.
MaxCalls == 3

\* f"{x:.2f}": x in thousandths, rounded to hundredths (no input of the
\* model lies on a tie).
Fmt2f(x) == [k |-> "2f", hundredths |-> (x + 5) \div 10]
\* f"{q:.2%}": q in units of 1e-5, as a percentage rounded to 0.01 %.
FmtPct(q) == [k |-> "2%", hundredths_pct |-> (q + 5) \div 10]
FmtStr(str) == [k |-> "str", str |-> str]
NoValue == [k |-> "none"]
Line(text, value) == [text |-> text, value |-> value]

\* prediction.upper()
Upper(prediction) ==
    CASE prediction = "normal" -> "NORMAL"
      [] prediction = "attack_blinding" -> "ATTACK_BLINDING"
      [] prediction = "attack_timeshift" -> "ATTACK_TIMESHIFT"
      [] prediction = "attack_intercept" -> "ATTACK_INTERCEPT"
      [] prediction = "attack_zeroday" -> "ATTACK_ZERODAY"

WarningLines(q) ==
    <<Line("WARNING: NEAR-CRITICAL NOISE LEVELS", NoValue),
      Line("Status: System is Safe, but QBER is approaching the abort threshold",
           FmtPct(q)),
      Line("Action: Check for eavesdropping attempts or fiber damage", NoValue)>>
CautionLines(q) ==
    <<Line("CAUTION: SUSPICIOUS ACTIVITY", NoValue),
      Line("Status: QBER is elevated", FmtPct(q))>>
SecureLines(q) ==
    <<Line("SYSTEM SECURE", NoValue),
      Line("Status: Nominal Operation", FmtPct(q))>>

\* Variant: the tiers start at their thresholds (>=).
NormalLines_Inclusive(q) ==
    IF q >= 8000 THEN WarningLines(q)
    ELSE IF q >= 5000 THEN CautionLines(q)
    ELSE SecureLines(q)

\* The branch of prediction "normal": q > 0.08, q > 0.05, else.
NormalLines(q) ==
    IF q > 8000 THEN WarningLines(q)
    ELSE IF q > 5000 THEN CautionLines(q)
    ELSE SecureLines(q)

\* The lines appended by the branch of the prediction.
BranchLines(prediction, v, j, q) ==
    IF prediction = "attack_blinding"
    THEN <<Line("CRITICAL THREAT: DETECTOR SATURATION", NoValue),
           Line("Reasoning: physical saturation signature", NoValue)>>
         \o (IF v > 5000 THEN <<Line("Evidence A: Voltage Spike", Fmt2f(v))>> ELSE <<>>)
         \o (IF j < 200 THEN <<Line("Evidence B: Zero Jitter", Fmt2f(j))>> ELSE <<>>)
         \o <<Line("Conclusion: Eve is blinding the detectors", NoValue)>>
    ELSE IF prediction = "attack_timeshift"
    THEN <<Line("SOPHISTICATED THREAT: TIMING ANOMALY", NoValue),
           Line("Reasoning: efficiency mismatch", NoValue)>>
         \o (IF j < 500 THEN <<Line("Evidence A: Unnatural Precision", Fmt2f(j))>> ELSE <<>>)
         \o (IF v < 600 THEN <<Line("Evidence B: Low Count Rate", Fmt2f(v))>> ELSE <<>>)
         \o <<Line("Conclusion: Eve is shifting pulses", NoValue)>>
    ELSE IF prediction = "attack_intercept"
    THEN <<Line("QUANTUM THREAT: INTERCEPT-RESEND DETECTED", NoValue),
           Line("Reasoning: QBER is statistically elevated", NoValue),
           Line("Evidence A: QBER", FmtPct(q)),
           Line("Conclusion: Eve is measuring and re-preparing photons", NoValue)>>
    ELSE IF prediction = "normal"
    THEN NormalLines(q)
    ELSE <<Line("UNKNOWN CLASSIFICATION", FmtStr(prediction)),
           Line("Action: Manual inspection required", NoValue)>>

\* Variant: the anomaly line whatever the prediction.
AnomalyLines_AnyPrediction(prediction, v, j) ==
    IF v > 5000 /\ j > 1000
    THEN <<Line("ANOMALY: High Voltage but Normal Jitter", NoValue)>>
    ELSE <<>>

\* The cross-feature anomaly line.
AnomalyLines(prediction, v, j) ==
    IF prediction # "attack_blinding" /\ v > 5000 /\ j > 1000
    THEN <<Line("ANOMALY: High Voltage but Normal Jitter", NoValue)>>
    ELSE <<>>

\* An analyze_incident whose report list lives in the module and is
\* appended to by every call.
AnalyzeIncident_SharedReport(prediction, vitals, module) ==
    LET v == vitals.voltage
        j == vitals.jitter
        q == vitals.qber
        kept == IF "report" \in DOMAIN module THEN module.report ELSE <<>>
        report == kept
                  \o <<Line("FORENSIC ANALYSIS", FmtStr(Upper(prediction)))>>
                  \o BranchLines(prediction, v, j, q)
                  \o AnomalyLines(prediction, v, j)
    IN [text |-> report, vitals |-> vitals,
        module |-> [__author__ |-> module.__author__, report |-> report]]

\* analyze_incident(prediction, vitals), run in the module namespace
\* module: the text returned, and vitals and the namespace afterwards.
AnalyzeIncident(prediction, vitals, module) ==
    LET v == vitals.voltage
        j == vitals.jitter
        q == vitals.qber
        report == <<Line("FORENSIC ANALYSIS", FmtStr(Upper(prediction)))>>
                  \o BranchLines(prediction, v, j, q)
                  \o AnomalyLines(prediction, v, j)
    IN [text |-> report, vitals |-> vitals, module |-> module]

\* report = analyze_incident(prediction, vitals)
AnalyzeCall(prediction, vitals) ==
    /\ Len(explain_calls) < MaxCalls
    /\ LET out == AnalyzeIncident(prediction, vitals, explain_module)
       IN /\ explain_module' = out.module
          /\ explain_calls' = Append(explain_calls,
                [prediction |-> prediction, vitals |-> vitals,
                 vitals_after |-> out.vitals, module_before |-> explain_module,
                 module_after |-> out.module, text |-> out.text])
    /\ UNCHANGED <<detVars, bufVars, v3, idsVars, tickVars, streamVars, ids_init, qVars,
                   inject_pc, lab, guiVars>>

InitExplain ==
    /\ explain_module = [__author__ |-> "Rahul Rajesh 2360445"]
    /\ explain_calls = <<>>

Vitals(v, j, q) == [voltage |-> v, jitter |-> j, qber |-> q]

\* Calls tried: every branch of every class, the unknown class, and the
\* anomaly line.
AnalyzeInputs ==
    {<<"normal", Vitals(3300, 1200, 4000)>>, <<"normal", Vitals(3300, 1203, 6000)>>,
     <<"normal", Vitals(3300, 1200, 9000)>>, <<"normal", Vitals(9040, 1200, 4000)>>,
     <<"attack_blinding", Vitals(9040, 90, 1000)>>,
     <<"attack_blinding", Vitals(3300, 1200, 1000)>>,
     <<"attack_timeshift", Vitals(3300, 50, 3000)>>,
     <<"attack_timeshift", Vitals(500, 1200, 3000)>>,
     <<"attack_intercept", Vitals(3300, 1200, 25004)>>,
     <<"attack_zeroday", Vitals(3300, 1200, 4000)>>,
     \* the thresholds themselves
     <<"normal", Vitals(3300, 1200, 5000)>>, <<"normal", Vitals(3300, 1200, 8000)>>,
     <<"normal", Vitals(5000, 1200, 4000)>>, <<"normal", Vitals(9040, 1000, 4000)>>,
     \* high voltage with normal jitter under an attack label
     <<"attack_blinding", Vitals(9040, 1200, 1000)>>,
     <<"attack_timeshift", Vitals(9040, 1200, 3000)>>}

(***************************************************************************)
(* gui/worker_thread.py                                                    *)
(***************************************************************************)
\* Events the stream hands to the worker loop: a matched pair without and
\* with an error, a pair with different bases, and a matched pair with
\* linear-mode telemetry.
PipelineEvents == {Event(0, 0, 0, 0, 330, 1200), Event(0, 0, 0, 1, 330, 1200),
                   Event(0, 0, 1, 1, 330, 1200), Event(1, 1, 1, 1, 900, 100)}

\* Model answers tried in the worker loop.
PipelineProba == {Rot(s, k) : s \in {<<100, 0, 0, 0>>, <<69, 31, 0, 0>>}, k \in 0..3}

\* result.verdict.replace(em dash, "-"): of the verdict strings only the
\* zero-day one holds an em dash.
CleanVerdict(verdict) ==
    IF verdict = ZeroDayVerdict THEN [verdict EXCEPT !.sep = "-"] ELSE verdict

\* IDSWorker._log_threat: the row appended to threat_telemetry.csv.
LogThreatRow(result, vitals) ==
    LET clean_verdict == CleanVerdict(result.verdict)
        zero_day      == clean_verdict.text = "POTENTIAL ZERO-DAY"  \* "ZERO-DAY" in clean_verdict
    IN  [verdict    |-> clean_verdict,
         signature  |-> IF zero_day THEN "Unclassified_Anomaly" ELSE result.rf_prediction,
         confidence |-> IF zero_day THEN [text |-> "100.00% (SVM Override)"]
                        ELSE [percent |-> result.rf_confidence],
         svm_anomaly |-> result.svm_anomaly,
         voltage |-> vitals.voltage, jitter |-> vitals.jitter, qber |-> vitals.qber]

\* `if buffer.is_ready and event_counter % 50 == 0`
ShouldEvaluate(b, c) == IsReady(b) /\ c % EvalEvery = 0

\* A float of the fingerprint in the integer units of the model of
\* analyze_incident: scale units of the result for one unit of r.
Scaled(r, scale) == (r.n * scale) \div r.d

\* The vitals dict as analyze_incident reads it: the voltage (mean of
\* centivolts) in mV, the jitter (mean of ps) in ps, the QBER in 1e-5.
NarrativeVitals(vitals) ==
    [voltage |-> Scaled(vitals.voltage, 10),
     jitter  |-> Scaled(vitals.jitter, 1),
     qber    |-> Scaled(vitals.qber, 100000)]

\* Variant: the narrative of an escalated result is that of an
\* unclassified anomaly, not that of the label.
NarrativeLabel_Verdict(result) ==
    IF result.verdict = ZeroDayVerdict THEN "attack_zeroday"
    ELSE result.rf_prediction

\* The first argument of `analyze_incident(result.rf_prediction, vitals)`.
NarrativeLabel(result) == result.rf_prediction

\* One iteration of the `async for` loop of _async_pipeline, for an event
\* yielded by the stream and the answers of the two models.

\* The loop header passes state_controller to quantum_event_stream, which
\* takes attack_mode, intensity_mode and noise_p only; the loop is modelled
\* as running on the stream of streams/quantum_producer.py.
PipelineBody(event, svm_result, rf_proba) ==
    /\ ~pipeline_done
    /\ event_counter < MaxEvents
    /\ IF ~running
       THEN /\ pipeline_done' = TRUE
            /\ UNCHANGED <<buf, pushed, feat, sift, infer_out, event_counter,
                           emitted, threat_log>>
       ELSE
       LET b == BufPush(buf, event)
           c == event_counter + 1
       IN  /\ buf' = b
           /\ pushed' = Append(pushed, event)
           /\ event_counter' = c
           /\ pipeline_done' = FALSE
           /\ IF ~ShouldEvaluate(b, c)
              THEN UNCHANGED <<feat, sift, infer_out, emitted, threat_log>>
              ELSE IF ExtractFeatures(b) = None
              THEN \* `if features is None: continue`
                   /\ feat' = Some(None)
                   /\ sift' = None
                   /\ UNCHANGED <<infer_out, emitted, threat_log>>
              ELSE LET features == ExtractFeatures(b).val
                       result   == Infer(svm_result, rf_proba)
                       vitals   == [voltage |-> features.detector_voltage,
                                    jitter  |-> features.timing_jitter,
                                    qber    |-> features.qber_overall]
                       narrative == AnalyzeIncident(NarrativeLabel(result),
                                                    NarrativeVitals(vitals),
                                                    explain_module).text
                   IN  /\ feat' = Some(ExtractFeatures(b))
                       /\ sift' = Some(SiftCounts(b))
                       /\ infer_out' = Some(result)
                       /\ threat_log' = IF result.flagged
                                        THEN Append(threat_log, LogThreatRow(result, vitals))
                                        ELSE threat_log
                       /\ emitted' = Append(emitted,
                              [verdict       |-> result.verdict,
                               rf_prediction |-> result.rf_prediction,
                               rf_confidence |-> result.rf_confidence,
                               svm_anomaly   |-> result.svm_anomaly,
                               flagged       |-> result.flagged,
                               vitals        |-> vitals,
                               report        |-> narrative,
                               class_probs   |-> result.class_probs])

PipelineEvent(event, svm_result, rf_proba) ==
    /\ PipelineBody(event, svm_result, rf_proba)
    /\ UNCHANGED <<running, ret, v3, detVars, tickVars, auxVars>>

\* IDSWorker.inject_attack
InjectAttack(attack, duration_events) ==
    /\ state_controller' =
          [active |-> TRUE, attack_mode |-> attack,
           intensity_mode |-> IF attack = "blinding" THEN "blinding"
                              ELSE "single_photon",
           remaining |-> duration_events]
    /\ UNCHANGED <<stream, iter>>
    /\ UNCHANGED <<detVars, bufVars, v3, idsVars, tickVars, libVars>>

(***************************************************************************)
(* inject_attack as the controller thread runs it while the worker thread  *)
(* iterates: four item assignments, each atomic, with no lock around them. *)
(***************************************************************************)
InjectIdle == [pc |-> 0]

InjectFrame ==
    UNCHANGED <<stream, iter, detVars, bufVars, v3, idsVars, tickVars, ids_init,
                qVars, explainVars, lab, guiVars>>

\* The call is entered: intensity is computed and
\* state_controller["attack_mode"] written.
InjectAttackBegin(attack, duration_events) ==
    /\ inject_pc = InjectIdle
    /\ inject_pc' = [pc |-> 1, attack |-> attack,
                     intensity |-> IF attack = "blinding" THEN "blinding"
                                   ELSE "single_photon",
                     duration_events |-> duration_events]
    /\ state_controller' = [state_controller EXCEPT !.attack_mode = attack]
    /\ InjectFrame

\* The next assignment of the call: intensity_mode, remaining, active.
InjectAttackStep ==
    /\ inject_pc.pc > 0
    /\ state_controller' =
          IF inject_pc.pc = 1
          THEN [state_controller EXCEPT !.intensity_mode = inject_pc.intensity]
          ELSE IF inject_pc.pc = 2
          THEN [state_controller EXCEPT !.remaining = inject_pc.duration_events]
          ELSE [state_controller EXCEPT !.active = TRUE]
    /\ inject_pc' = IF inject_pc.pc = 3 THEN InjectIdle
                    ELSE [inject_pc EXCEPT !.pc = inject_pc.pc + 1]
    /\ InjectFrame

\* IDSWorker.stop
Stop ==
    /\ running
    /\ running' = FALSE
    /\ UNCHANGED <<pipeline_done, infer_out, event_counter, emitted, threat_log>>
    /\ UNCHANGED <<detVars, bufVars, v3, tickVars, auxVars>>

InitEngine ==
    /\ infer_out = None
    /\ event_counter = 0
    /\ emitted = <<>>
    /\ threat_log = <<>>
    /\ running = TRUE
    /\ pipeline_done = FALSE
    /\ state_controller = [active |-> FALSE, attack_mode |-> "none",
                           intensity_mode |-> "single_photon", remaining |-> 0]

(***************************************************************************)
(* IDSEngine.__init__: both artefact paths are tested with os.path.exists, *)
(* then the forest is unpickled, then the novelty model.  files is the set *)
(* of paths that exist, unpickles the set of paths whose content           *)
(* pickle.load accepts.  steps lists what __init__ did, in order; attrs    *)
(* the attributes set on self when it returned or raised; object the       *)
(* instance handed to the caller (None when __init__ raised).              *)
(***************************************************************************)
ArtefactPaths == {"rf_model_v3.pkl", "svm_model_v3.pkl", "custom.pkl"}

Step(op, path) == [op |-> op, path |-> path]

Raised(steps, attrs, error) ==
    [steps |-> steps, attrs |-> attrs, error |-> Some(error), object |-> None]

\* The order in which a variant of __init__ tests and loads: test, load,
\* test, load.
EngineConstruct_Interleaved(rf_path, svm_path, files, unpickles) ==
    IF rf_path \notin files
    THEN Raised(<<Step("exists", rf_path)>>, {}, "FileNotFoundError")
    ELSE IF rf_path \notin unpickles
    THEN Raised(<<Step("exists", rf_path), Step("load", rf_path)>>, {},
                "UnpicklingError")
    ELSE IF svm_path \notin files
    THEN Raised(<<Step("exists", rf_path), Step("load", rf_path),
                  Step("exists", svm_path)>>, {"_rf"}, "FileNotFoundError")
    ELSE IF svm_path \notin unpickles
    THEN Raised(<<Step("exists", rf_path), Step("load", rf_path),
                  Step("exists", svm_path), Step("load", svm_path)>>,
                {"_rf"}, "UnpicklingError")
    ELSE [steps |-> <<Step("exists", rf_path), Step("load", rf_path),
                      Step("exists", svm_path), Step("load", svm_path)>>,
          attrs |-> {"_rf", "_svm", "confidence_threshold"},
          error |-> None,
          object |-> Some([_rf |-> rf_path, _svm |-> svm_path,
                           confidence_threshold |-> CONFIDENCE_THRESHOLD])]

EngineConstruct(rf_path, svm_path, files, unpickles) ==
    IF rf_path \notin files
    THEN Raised(<<Step("exists", rf_path)>>, {}, "FileNotFoundError")
    ELSE IF svm_path \notin files
    THEN Raised(<<Step("exists", rf_path), Step("exists", svm_path)>>, {},
                "FileNotFoundError")
    ELSE IF rf_path \notin unpickles
    THEN Raised(<<Step("exists", rf_path), Step("exists", svm_path),
                  Step("load", rf_path)>>, {}, "UnpicklingError")
    ELSE IF svm_path \notin unpickles
    THEN Raised(<<Step("exists", rf_path), Step("exists", svm_path),
                  Step("load", rf_path), Step("load", svm_path)>>,
                {"_rf"}, "UnpicklingError")
    ELSE [steps |-> <<Step("exists", rf_path), Step("exists", svm_path),
                      Step("load", rf_path), Step("load", svm_path)>>,
          attrs |-> {"_rf", "_svm", "confidence_threshold"},
          error |-> None,
          object |-> Some([_rf |-> rf_path, _svm |-> svm_path,
                           confidence_threshold |-> CONFIDENCE_THRESHOLD])]

NoEngineCall == [called |-> FALSE]

\* engine = IDSEngine(rf_path, svm_path)
NewIDSEngine(rf_path, svm_path, files, unpickles) ==
    /\ ids_init' = [called |-> TRUE, rf_path |-> rf_path, svm_path |-> svm_path,
                    files |-> files, unpickles |-> unpickles,
                    out |-> EngineConstruct(rf_path, svm_path, files, unpickles)]
    /\ UNCHANGED <<detVars, bufVars, v3, idsVars, tickVars, streamVars, qVars,
                   explainVars, inject_pc, lab, guiVars>>

InitEngineCall == ids_init = NoEngineCall

(***************************************************************************)
(* streams/quantum_producer.py                                             *)
(***************************************************************************)
\* The parameters of quantum_event_stream and their defaults (noise_p in
\* percent).
StreamParams == {"attack_mode", "intensity_mode", "noise_p"}
StreamDefaults == [attack_mode |-> "none", intensity_mode |-> "single_photon",
                   noise_p |-> 4]

\* Binding of a call's keyword arguments to the parameters.
BindStreamArgs(kwargs) ==
    IF DOMAIN kwargs \subseteq StreamParams
    THEN [ok |-> TRUE,
          args |-> [name \in StreamParams |->
                      IF name \in DOMAIN kwargs THEN kwargs[name]
                      ELSE StreamDefaults[name]]]
    ELSE [ok |-> FALSE, error |-> "TypeError"]

\* The call in the loop header of IDSWorker._async_pipeline.
WorkerKwargs(am, im) ==
    [attack_mode |-> am, intensity_mode |-> im, noise_p |-> 4,
     state_controller |-> state_controller]

\* The call of the module's usage note.
UsageKwargs(am, im) == [attack_mode |-> am, intensity_mode |-> im]

IntensityModes == {"single_photon", "blinding"}

NotStarted == [status |-> "unstarted", attack_mode |-> "none",
               intensity_mode |-> "single_photon", t |-> 0]

\* quantum_event_stream(**kwargs) up to its `while True`: the arguments are
\* bound, the detector is built and given its attack mode, the clock is 0.
StartStream(kwargs) ==
    /\ stream.status = "unstarted"
    /\ LET b == BindStreamArgs(kwargs)
       IN  IF b.ok
           THEN /\ stream' = [status |-> "iterating",
                              attack_mode |-> b.args["attack_mode"],
                              intensity_mode |-> b.args["intensity_mode"],
                              t |-> 0]
                /\ attack_mode' = b.args["attack_mode"]
           ELSE /\ stream' = [stream EXCEPT !.status = b.error]
                /\ UNCHANGED attack_mode
    /\ UNCHANGED <<last_click_time, current_voltage, current_jitter, det_call>>
    /\ UNCHANGED <<state_controller, iter>>
    /\ UNCHANGED <<bufVars, v3, idsVars, tickVars, libVars>>

NoIter == [ran |-> FALSE]

\* Variant: the clock advances only in an iteration that yields.
NextClock_OnYield(t, result) == IF result.some THEN t + TICK ELSE t

\* `t += 1e-6`, in every iteration.
NextClock(t, result) == t + TICK

\* Variant: `if result:`, which takes the bit 0 for no result.
ShouldYield_Truthy(result) == result.some /\ result.val # 0

\* `if result is not None`
ShouldYield(result) == result.some

\* One iteration of the `while True` loop of quantum_event_stream.
GenIteration(alice_bit, alice_basis, bob_basis, r) ==
    /\ stream.status = "iterating"
    /\ stream.t < MaxTime
    /\ UNCHANGED <<state_controller, libVars>>
    /\ LET flux  == EmitFlux(stream.intensity_mode)
           res   == Detect(Detector, flux, stream.t, r)
           event == IF ShouldYield(res.ret)
                    THEN Some(Event(alice_bit, alice_basis, bob_basis, res.ret.val,
                                    res.det.current_voltage, res.det.current_jitter))
                    ELSE None
       IN  /\ last_click_time' = res.det.last_click_time
           /\ attack_mode'     = res.det.attack_mode
           /\ current_voltage' = res.det.current_voltage
           /\ current_jitter'  = res.det.current_jitter
           /\ det_call' = [called |-> TRUE, flux |-> flux,
                           time |-> stream.t, mode |-> attack_mode,
                           pre_last_click |-> last_click_time,
                           branch |-> res.branch, ret |-> res.ret]
           /\ stream' = [stream EXCEPT !.t = NextClock(stream.t, res.ret)]
           /\ iter' = [ran |-> TRUE, clock |-> stream.t,
                       attack_mode |-> attack_mode,
                       intensity_mode |-> stream.intensity_mode,
                       result |-> res.ret, yielded |-> event,
                       sc_before |-> state_controller,
                       sc_after |-> state_controller',
                       running |-> running]

\* An iteration of the generator on its own.
StreamIteration(alice_bit, alice_basis, bob_basis, r) ==
    /\ GenIteration(alice_bit, alice_basis, bob_basis, r)
    /\ UNCHANGED <<bufVars, v3, idsVars, tickVars>>

\* An iteration of the generator driven by the `async for` of
\* _async_pipeline: the loop body runs only if the iteration yields an
\* Event; otherwise the generator goes on to its next iteration.
WorkerIteration(alice_bit, alice_basis, bob_basis, r, svm_result, rf_proba) ==
    /\ ~pipeline_done
    /\ GenIteration(alice_bit, alice_basis, bob_basis, r)
    /\ IF iter'.yielded.some
       THEN /\ PipelineBody(iter'.yielded.val, svm_result, rf_proba)
            /\ UNCHANGED <<running, ret, v3, tickVars>>
       ELSE UNCHANGED <<bufVars, v3, idsVars, tickVars>>

InitStream ==
    /\ stream = NotStarted
    /\ iter = NoIter


(* quantum_event_stream either yields an Event, which the consumer pushes, *)
(* or yields nothing.  ticks and yielded count the iterations and the      *)
(* events since the last fingerprint was extracted.                        *)
(***************************************************************************)
StreamEvents == {Event(0, 0, 0, 0, 330, 1200), Event(1, 0, 0, 0, 330, 1200),
                 Event(0, 1, 0, 1, 330, 1200)}

FingerprintTaken == feat.some /\ feat.val.some

\* An iteration in which detect returned None.
StreamSkip ==
    /\ (IF FingerprintTaken THEN 0 ELSE ticks) < MaxTicks
    /\ ticks' = (IF FingerprintTaken THEN 0 ELSE ticks) + 1
    /\ yielded' = (IF FingerprintTaken THEN 0 ELSE yielded)
    /\ feat' = None /\ sift' = None
    /\ UNCHANGED <<buf, pushed, ret, v3, detVars, idsVars, auxVars>>

\* An iteration in which detect returned a bit: the Event is pushed.
StreamYield(event) ==
    /\ (IF FingerprintTaken THEN 0 ELSE ticks) < MaxTicks
    /\ Len(pushed) < MaxPushes
    /\ ticks' = (IF FingerprintTaken THEN 0 ELSE ticks) + 1
    /\ yielded' = (IF FingerprintTaken THEN 0 ELSE yielded) + 1
    /\ buf' = BufPush(buf, event)
    /\ pushed' = Append(pushed, event)
    /\ feat' = None /\ sift' = None
    /\ UNCHANGED <<ret, v3, detVars, idsVars, auxVars>>

(***************************************************************************)
(* Simulation/core_real.py: QState, a 2x2 complex density matrix.          *)
(* A complex number is <<re, im>>; a matrix is Mat(num, den), the 2x2      *)
(* tuple num of complex integers over the common positive denominator den, *)
(* kept in lowest terms, so the arithmetic is exact.  A gate U is          *)
(* Gate(m, n) with U = m / sqrt(n), so that U rho U^dagger is              *)
(* m rho m^dagger / n.                                                     *)
(***************************************************************************)
\* Calls made on one QState in a run.
MaxOps == 3

Abs(x) == IF x < 0 THEN -x ELSE x

RECURSIVE GCD(_, _)
GCD(a, b) == IF b = 0 THEN Abs(a) ELSE GCD(b, Abs(a) % Abs(b))

CAdd(a, b) == <<a[1] + b[1], a[2] + b[2]>>
CMul(a, b) == <<a[1] * b[1] - a[2] * b[2], a[1] * b[2] + a[2] * b[1]>>
CConj(a) == <<a[1], -a[2]>>
CScale(k, a) == <<k * a[1], k * a[2]>>
CDiv(a, k) == <<a[1] \div k, a[2] \div k>>

MatMul(A, B) ==
    <<<<CAdd(CMul(A[1][1], B[1][1]), CMul(A[1][2], B[2][1])),
        CAdd(CMul(A[1][1], B[1][2]), CMul(A[1][2], B[2][2]))>>,
      <<CAdd(CMul(A[2][1], B[1][1]), CMul(A[2][2], B[2][1])),
        CAdd(CMul(A[2][1], B[1][2]), CMul(A[2][2], B[2][2]))>>>>
MatAdd(A, B) ==
    <<<<CAdd(A[1][1], B[1][1]), CAdd(A[1][2], B[1][2])>>,
      <<CAdd(A[2][1], B[2][1]), CAdd(A[2][2], B[2][2])>>>>
MatScale(k, A) ==
    <<<<CScale(k, A[1][1]), CScale(k, A[1][2])>>,
      <<CScale(k, A[2][1]), CScale(k, A[2][2])>>>>
MatDiv(A, k) ==
    <<<<CDiv(A[1][1], k), CDiv(A[1][2], k)>>,
      <<CDiv(A[2][1], k), CDiv(A[2][2], k)>>>>
\* A.conj().T
Dagger(A) ==
    <<<<CConj(A[1][1]), CConj(A[2][1])>>,
      <<CConj(A[1][2]), CConj(A[2][2])>>>>
\* np.trace
Tr(A) == CAdd(A[1][1], A[2][2])

MatGCD(A) ==
    GCD(GCD(GCD(A[1][1][1], A[1][1][2]), GCD(A[1][2][1], A[1][2][2])),
        GCD(GCD(A[2][1][1], A[2][1][2]), GCD(A[2][2][1], A[2][2][2])))

\* num / den in lowest terms, den > 0.
Mat(num, den) ==
    LET g == GCD(MatGCD(num), den)
        sgn == IF den < 0 THEN -1 ELSE 1
    IN [num |-> MatDiv(MatScale(sgn, num), g), den |-> (sgn * den) \div g]

\* The module constants I, X, Y, Z, H.
Gate(m, n) == [m |-> m, n |-> n]
I == Gate(<<<<<<1, 0>>, <<0, 0>>>>, <<<<0, 0>>, <<1, 0>>>>>>, 1)
X == Gate(<<<<<<0, 0>>, <<1, 0>>>>, <<<<1, 0>>, <<0, 0>>>>>>, 1)
Y == Gate(<<<<<<0, 0>>, <<0, -1>>>>, <<<<0, 1>>, <<0, 0>>>>>>, 1)
Z == Gate(<<<<<<1, 0>>, <<0, 0>>>>, <<<<0, 0>>, <<-1, 0>>>>>>, 1)
H == Gate(<<<<<<1, 0>>, <<1, 0>>>>, <<<<1, 0>>, <<-1, 0>>>>>>, 2)
\* A unitary a caller may pass that is not a module constant: the phase
\* gate diag(1, i).
PhaseGate == Gate(<<<<<<1, 0>>, <<0, 0>>>>, <<<<0, 0>>, <<0, 1>>>>>>, 1)
Unitaries == [X |-> X, Y |-> Y, Z |-> Z, H |-> H, S |-> PhaseGate]

\* np.outer(ket, ket.conj()) for a real ket <<a, b>> / sqrt(n)
Outer(a, b, n) ==
    Mat(<<<<<<a * a, 0>>, <<a * b, 0>>>>, <<<<b * a, 0>>, <<b * b, 0>>>>>>, n)

\* ket_map of from_label, each ket as <<a, b, n>> for <<a, b>> / sqrt(n)
ket_map == [H |-> <<1, 0, 1>>, V |-> <<0, 1, 1>>,
            D |-> <<1, 1, 2>>, A |-> <<1, -1, 2>>]

\* QState.__init__(matrix): rho = matrix / trace(matrix)
QStateNew(matrix) == Mat(MatScale(matrix.den, matrix.num), matrix.den * Tr(matrix.num)[1])

\* QState.from_label: the object made, or the exception raised before any
\* is made.
FromLabelOp(label) ==
    IF label \notin DOMAIN ket_map
    THEN [error |-> Some("ValueError"), object |-> None]
    ELSE LET ket == ket_map[label]
         IN [error |-> None,
             object |-> Some(QStateNew(Outer(ket[1], ket[2], ket[3])))]

\* apply_unitary: U @ rho @ U.conj().T
ApplyUnitaryOp(rho, U) ==
    Mat(MatMul(MatMul(U.m, rho.num), Dagger(U.m)), U.n * rho.den)

\* A channel that only damps: (1 - p) * rho.
DepolarizeOp_DampOnly(rho, p) ==
    Mat(MatScale(p.d - p.n, rho.num), p.d * rho.den)

\* apply_depolarizing_noise: (1 - p) * rho + p * (I / 2.0), p = p.n / p.d
DepolarizeOp(rho, p) ==
    Mat(MatAdd(MatScale(2 * (p.d - p.n), rho.num), MatScale(p.n * rho.den, I.m)),
        2 * p.d * rho.den)

\* The projectors P0, P1 of a basis.
Projectors(basis) ==
    IF basis = "rectilinear"
    THEN <<Outer(1, 0, 1), Outer(0, 1, 1)>>
    ELSE <<Outer(1, 1, 2), Outer(1, -1, 2)>>

\* float(np.real(np.trace(P @ rho))), as <<numerator, denominator>>
ProbOf(P, rho) == <<Tr(MatMul(P.num, rho.num))[1], P.den * rho.den>>

\* prob_0, prob_1 after the division by their total, as numerators over the
\* common denominator total.
MeasureProbs(rho, basis) ==
    LET P == Projectors(basis)
        prob_0 == ProbOf(P[1], rho)
        prob_1 == ProbOf(P[2], rho)
        \* both over the same denominator when the projectors share theirs
        total == prob_0[1] + prob_1[1]
    IN [p |-> <<prob_0[1], prob_1[1]>>, total |-> total]

\* The outcomes np.random.choice([0, 1], p=[prob_0, prob_1]) can return.
Outcomes(rho, basis) ==
    {r \in {0, 1} : MeasureProbs(rho, basis).p[r + 1] > 0}

\* `norm > 1e-15`: every probability the matrices of this model give is 0
\* or at least 1 / (2 * rho.den), far above 1e-15.
AboveFloor(norm) == norm[1] > 0

\* A collapse that keeps P rho P as it is.
Collapse_NoNorm(rho, projector) ==
    Mat(MatMul(MatMul(projector.num, rho.num), projector.num),
        projector.den * rho.den * projector.den)

\* Lueders collapse: (P rho P) / Tr(P rho), or P when the norm vanishes
Collapse(rho, projector) ==
    LET norm == ProbOf(projector, rho)
    IN IF AboveFloor(norm)
       THEN Mat(MatScale(norm[2],
                         MatMul(MatMul(projector.num, rho.num), projector.num)),
                projector.den * rho.den * projector.den * norm[1])
       ELSE projector

\* A measure that draws and collapses in the rectilinear basis before it
\* looks at the basis name.
MeasureOp_DrawFirst(rho, basis, r) ==
    IF basis \notin {"rectilinear", "diagonal"}
    THEN [error |-> Some("ValueError"), result |-> None, drew |-> TRUE,
          rho |-> Collapse(rho, Projectors("rectilinear")[r + 1])]
    ELSE [error |-> None, result |-> Some(r), drew |-> TRUE,
          rho |-> Collapse(rho, Projectors(basis)[r + 1])]

\* QState.measure(basis) when the draw gives r: the exception or the value
\* returned, whether an outcome was drawn, and rho afterwards.
MeasureOp(rho, basis, r) ==
    IF basis \notin {"rectilinear", "diagonal"}
    THEN [error |-> Some("ValueError"), result |-> None, drew |-> FALSE,
          rho |-> rho]
    ELSE [error |-> None, result |-> Some(r), drew |-> TRUE,
          rho |-> Collapse(rho, Projectors(basis)[r + 1])]

QCall(op, arg, error, result, drew) ==
    [n |-> qcall.n + 1, op |-> op, arg |-> arg, error |-> error,
     result |-> result, drew |-> drew, before |-> qstate]

QFrame == UNCHANGED <<detVars, bufVars, v3, idsVars, tickVars, streamVars, ids_init,
                      explainVars, inject_pc, lab, guiVars>>

\* q = QState.from_label(label)
FromLabel(label) ==
    /\ qcall.n < MaxOps
    /\ LET out == FromLabelOp(label)
       IN /\ qstate' = IF out.error.some THEN qstate ELSE out.object
          /\ qcall' = QCall("from_label", label, out.error, out.object, FALSE)
    /\ QFrame

\* q.apply_unitary(U)
ApplyUnitary(name) ==
    /\ qcall.n < MaxOps
    /\ qstate.some
    /\ qstate' = Some(ApplyUnitaryOp(qstate.val, Unitaries[name]))
    /\ qcall' = QCall("apply_unitary", name, None, None, FALSE)
    /\ QFrame

\* q.apply_depolarizing_noise(p)
ApplyDepolarizingNoise(p) ==
    /\ qcall.n < MaxOps
    /\ qstate.some
    /\ qstate' = Some(DepolarizeOp(qstate.val, p))
    /\ qcall' = QCall("apply_depolarizing_noise", p, None, None, FALSE)
    /\ QFrame

\* q.measure(basis); r is the outcome drawn, should one be drawn
Measure(basis, r) ==
    /\ qcall.n < MaxOps
    /\ qstate.some
    /\ basis \in {"rectilinear", "diagonal"} => r \in Outcomes(qstate.val, basis)
    /\ LET out == MeasureOp(qstate.val, basis, r)
       IN /\ qstate' = Some(out.rho)
          /\ qcall' = QCall("measure", basis, out.error, out.result, out.drew)
    /\ QFrame

InitQState ==
    /\ qstate = None
    /\ qcall = [n |-> 0, op |-> "none"]

\* Labels, bases and noise levels tried; "R" and "circular" are not ones
\* the class knows.
LabelInputs == {"H", "V", "D", "A", "R"}
BasisInputs == {"rectilinear", "diagonal", "circular"}
NoiseInputs == {Ratio(0, 1), Ratio(1, 2), Ratio(1, 1)}

(***************************************************************************)
(* gui/main_window.py and gui/worker_thread.py: the dashboard thread and   *)
(* the threads of the workers it creates.  A worker thread is "started"    *)
(* from start() until its pipeline has called the stream, "looping" while  *)
(* it iterates, and "finished" once run() has returned or raised.          *)
(***************************************************************************)
\* Mode switches in one run, and results one worker emits.
MaxSwitches == 2
MaxResults == 1
MaxWorkers == MaxSwitches + 1

\* mode_map of _on_attack_changed
ModeOfIndex == [i \in 0..3 |-> CASE i = 0 -> "none" [] i = 1 -> "timeshift"
                                 [] i = 2 -> "blinding" [] i = 3 -> "zeroday"]

\* mode_map of _set_initial_dropdown, inverted.
IndexOfMode(mode) == CHOOSE i \in 0..3 : ModeOfIndex[i] = mode

\* The ticks an iteration that yields keeps the detector dead afterwards.
DeadTicks == (DEAD_TIME \div TICK) - 1

\* IDSWorker(attack_mode, intensity_mode) as _start_worker builds it, and
\* start().
NewWorker(mode) ==
    [attack_mode |-> mode,
     intensity_mode |-> IF mode = "blinding" THEN "blinding" ELSE "single_photon",
     _running |-> TRUE, state |-> "started", dead |-> 0, last |-> "none"]

Unbuilt == [pc |-> "unbuilt", worker |-> 0, index |-> 0, switches |-> 0]

InitDashboard ==
    /\ dashboard = Unbuilt
    /\ workers = <<>>
    /\ results = <<>>

GuiFrame ==
    UNCHANGED <<detVars, bufVars, v3, idsVars, tickVars, streamVars, ids_init,
                qVars, explainVars, inject_pc, lab>>

\* IDSDashboard.__init__: _build_ui connects the selector, whose index is 0;
\* _set_initial_dropdown moves it, which for another mode than "none" calls
\* _on_attack_changed before any worker exists (AttributeError in a slot:
\* the process aborts, or the error is printed and __init__ goes on); then
\* _start_worker.
NewDashboard(mode, aborts) ==
    /\ dashboard.pc = "unbuilt"
    /\ IF IndexOfMode(mode) # 0 /\ aborts
       THEN /\ dashboard' = [dashboard EXCEPT !.pc = "aborted"]
            /\ UNCHANGED workers
       ELSE /\ dashboard' = [pc |-> "idle", worker |-> 1,
                             index |-> IndexOfMode(mode), switches |-> 0]
            /\ workers' = <<NewWorker(mode)>>
    /\ UNCHANGED results
    /\ GuiFrame

\* _on_attack_changed up to its wait(): currentIndexChanged(index) arrives,
\* self._worker.stop() clears the flag, and the thread blocks in
\* self._worker.wait().
OnAttackChanged(index) ==
    /\ dashboard.pc = "idle"
    /\ dashboard.switches < MaxSwitches
    /\ index # dashboard.index
    /\ workers' = [workers EXCEPT ![dashboard.worker]._running = FALSE]
    /\ dashboard' = [dashboard EXCEPT !.pc = "waiting", !.index = index]
    /\ UNCHANGED results
    /\ GuiFrame

\* Variant: a wait that gives up at once, as a wait with a timeout may.
WaitDone_GivesUp(w) == TRUE

\* QThread.wait() returns once run() has returned.
WaitDone(w) == w.state = "finished"

\* The rest of _on_attack_changed: wait() returns, the display is reset and
\* _start_worker(selected_mode) creates and starts the replacement.
WaitReturns ==
    /\ dashboard.pc = "waiting"
    /\ WaitDone(workers[dashboard.worker])
    /\ workers' = Append(workers, NewWorker(ModeOfIndex[dashboard.index]))
    /\ dashboard' = [dashboard EXCEPT !.pc = "idle", !.worker = Len(workers) + 1,
                                      !.switches = dashboard.switches + 1]
    /\ UNCHANGED results
    /\ GuiFrame

\* The two calls of the stream: the one of the loop header and one its
\* signature allows.
StreamCalls == {"header", "signature"}
BeginKwargs(w, call) ==
    IF call = "header"
    THEN WorkerKwargs(workers[w].attack_mode, workers[w].intensity_mode)
    ELSE UsageKwargs(workers[w].attack_mode, workers[w].intensity_mode)

\* run() up to the loop header of _async_pipeline: the stream is called; a
\* call that cannot be bound raises and run() ends.
WorkerBegin(w, call) ==
    /\ w \in DOMAIN workers
    /\ workers[w].state = "started"
    /\ workers' = [workers EXCEPT ![w].state =
                      IF BindStreamArgs(BeginKwargs(w, call)).ok
                      THEN "looping" ELSE "finished"]
    /\ UNCHANGED <<dashboard, results>>
    /\ GuiFrame

\* An iteration of the stream that yields no Event: the detector is dead,
\* or the photon is not detected.  The loop body does not run.
WorkerNoYield(w) ==
    /\ w \in DOMAIN workers
    /\ workers[w].state = "looping"
    /\ workers' = [workers EXCEPT
                      ![w].dead = IF @ > 0 THEN @ - 1 ELSE 0,
                      ![w].last = IF workers[w].dead > 0 THEN "dead" ELSE "miss"]
    /\ UNCHANGED <<dashboard, results>>
    /\ GuiFrame

\* The results worker w has emitted.
ResultsOf(w) == Len(SelectSeq(results, LAMBDA x : x = w))

\* An iteration of the stream that yields an Event, and the loop body on
\* it: `if not self._running: break` ends run(); otherwise the event is
\* pushed and, when the window is evaluated, result_ready is emitted.
WorkerYield(w, evaluates) ==
    /\ w \in DOMAIN workers
    /\ workers[w].state = "looping"
    /\ workers[w].dead = 0
    /\ IF ~workers[w]._running
       THEN /\ workers' = [workers EXCEPT ![w].state = "finished",
                                          ![w].dead = DeadTicks,
                                          ![w].last = "break"]
            /\ UNCHANGED results
       ELSE /\ workers' = [workers EXCEPT ![w].dead = DeadTicks,
                                          ![w].last = "event"]
            /\ results' = IF evaluates /\ ResultsOf(w) < MaxResults
                          THEN Append(results, w) ELSE results
    /\ UNCHANGED dashboard
    /\ GuiFrame

NextDashboard ==
    \/ \E mode \in {"none", "timeshift", "blinding", "zeroday"}, aborts \in BOOLEAN :
          NewDashboard(mode, aborts)
    \/ \E index \in 0..3 : OnAttackChanged(index)
    \/ WaitReturns
    \/ \E w \in 1..MaxWorkers :
          \/ \E call \in StreamCalls : WorkerBegin(w, call)
          \/ WorkerNoYield(w)
          \/ \E evaluates \in BOOLEAN : WorkerYield(w, evaluates)

\* The dashboard thread returns from a wait that is done; a worker thread
\* goes on running; and of the iterations outside the dead time, each
\* detecting with a probability above 0, one detects in the end.
FairDashboard ==
    /\ WF_vars(WaitReturns)
    /\ \A w \in 1..MaxWorkers :
          /\ WF_vars(\E call \in StreamCalls : WorkerBegin(w, call))
          /\ WF_vars(WorkerNoYield(w))
          /\ SF_vars(\E evaluates \in BOOLEAN : WorkerYield(w, evaluates))

(***************************************************************************)
(* Specifications                                                          *)
(***************************************************************************)
Init ==
    /\ InitDetector
    /\ InitBuffer
    /\ v3 = None
    /\ InitEngine
    /\ ticks = 0 /\ yielded = 0
    /\ InitStream
    /\ InitEngineCall
    /\ InitQState
    /\ InitExplain
    /\ inject_pc = InjectIdle
    /\ lab = NoLabRun
    /\ InitDashboard

NextDetector ==
    \/ \E mode \in AttackModes : SetAttackMode(mode)
    \/ \E f \in FluxInputs, b \in Bases, now \in 0..MaxTime, r \in Rolls :
          DetectCall(f, b, now, r)

NextBuffer ==
    \/ \E e \in WindowEvents : Push(e)
    \/ ExtractFeaturesCall
    \/ IsReadyCall
    \/ FillLevelCall
    \/ CalcV3Call

NextInfer ==
    \E svm \in SvmInputs, p \in ProbaInputs : InferCall(svm, p)

NextPipeline ==
    \/ \E e \in PipelineEvents, svm \in SvmInputs, p \in PipelineProba :
          PipelineEvent(e, svm, p)
    \/ Stop

NextStreamWindow ==
    \/ StreamSkip
    \/ \E e \in StreamEvents : StreamYield(e)
    \/ ExtractFeaturesCall

\* Attacks and durations given to inject_attack.
InjectedAttacks == {"blinding", "timeshift"}
MaxDuration == 2

NextStream ==
    \/ \E am \in AttackModes, im \in IntensityModes :
          StartStream(WorkerKwargs(am, im)) \/ StartStream(UsageKwargs(am, im))
    \/ \E ab \in {0, 1}, aB \in {0, 1}, bB \in {0, 1}, r \in Rolls :
          StreamIteration(ab, aB, bB, r)
    \/ \E attack \in InjectedAttacks, n \in 1..MaxDuration : InjectAttack(attack, n)

\* Tried in the worker loop driven by the generator: the draws of sender
\* bit, sender basis and receiver basis (a matched and a mismatched pair),
\* and the answer of the classifier (an uncertain "normal").
WorkerDraws == {<<0, 0, 0>>, <<1, 0, 1>>}
WorkerProba == {<<0, 31, 0, 69>>}

\* The worker loop on the generator (the generator called as its signature
\* allows), and stop().
NextWorker ==
    \/ \E am \in AttackModes, im \in IntensityModes : StartStream(UsageKwargs(am, im))
    \/ \E d \in WorkerDraws, r \in Rolls, svm \in SvmInputs, p \in WorkerProba :
          WorkerIteration(d[1], d[2], d[3], r, svm, p)
    \/ Stop

\* IDSEngine constructed with any two paths on any file system; a file that
\* unpickles exists.
NextEngineInit ==
    \E rf_path \in ArtefactPaths, svm_path \in ArtefactPaths,
       files \in SUBSET ArtefactPaths :
       \E unpickles \in SUBSET files :
          NewIDSEngine(rf_path, svm_path, files, unpickles)

NextQState ==
    \/ \E label \in LabelInputs : FromLabel(label)
    \/ \E name \in DOMAIN Unitaries : ApplyUnitary(name)
    \/ \E p \in NoiseInputs : ApplyDepolarizingNoise(p)
    \/ \E basis \in BasisInputs, r \in {0, 1} : Measure(basis, r)

NextExplain ==
    \E in \in AnalyzeInputs : AnalyzeCall(in[1], in[2])

\* The stream of a worker started as the sandbox starts it, and the
\* controller thread injecting while it iterates.
NextInject ==
    \/ StartStream(UsageKwargs("none", "single_photon"))
    \/ \E d \in WorkerDraws, r \in Rolls : StreamIteration(d[1], d[2], d[3], r)
    \/ \E attack \in InjectedAttacks, n \in 1..MaxDuration : InjectAttackBegin(attack, n)
    \/ InjectAttackStep

\* The three sifting implementations on the same pushed events.
NextSift ==
    \/ \E e \in SiftEvents : Push(e)
    \/ ExtractFeaturesCall
    \/ CalcV3Call
    \/ LabSiftCall

Next == NextDetector \/ NextBuffer \/ NextInfer \/ NextPipeline \/ NextStreamWindow
        \/ NextStream \/ NextWorker \/ NextEngineInit \/ NextQState \/ NextExplain
        \/ NextInject \/ NextSift \/ NextDashboard

Spec == Init /\ [][Next]_vars
SpecDetector == Init /\ [][NextDetector]_vars
SpecBuffer == Init /\ [][NextBuffer]_vars
SpecInfer == Init /\ [][NextInfer]_vars
SpecPipeline == Init /\ [][NextPipeline]_vars
SpecStreamWindow == Init /\ [][NextStreamWindow]_vars
SpecStream == Init /\ [][NextStream]_vars
SpecWorker == Init /\ [][NextWorker]_vars
SpecEngineInit == Init /\ [][NextEngineInit]_vars
SpecQState == Init /\ [][NextQState]_vars
SpecExplain == Init /\ [][NextExplain]_vars
SpecInject == Init /\ [][NextInject]_vars
SpecSift == Init /\ [][NextSift]_vars
SpecDashboard == Init /\ [][NextDashboard]_vars
SpecDashboardFair == SpecDashboard /\ FairDashboard

(***************************************************************************)
(* Properties                                                              *)
(***************************************************************************)
IsZeroDay(r)   == r.verdict = ZeroDayVerdict
IsUncertain(r) == r.verdict = UncertainVerdict(r.rf_prediction)
IsAttack(r)    == r.verdict = LabelVerdict(r.rf_prediction) /\ r.rf_prediction # "normal"
IsNormal(r)    == r.verdict = LabelVerdict("normal")

\* The number of the four verdict categories a result falls in.
CategoryCount(r) ==
    Cardinality({c \in {"ZeroDay", "Uncertain", "Attack", "Normal"} :
                    \/ c = "ZeroDay"   /\ IsZeroDay(r)
                    \/ c = "Uncertain" /\ IsUncertain(r)
                    \/ c = "Attack"    /\ IsAttack(r)
                    \/ c = "Normal"    /\ IsNormal(r)})

FlaggedEmitted == SelectSeq(emitted, LAMBDA rec : rec.flagged)

C3_DeadTimeBlocks ==
    [][(attack_mode' = attack_mode
        /\ det_call'.called
        /\ det_call'.time - last_click_time < DEAD_TIME)
       => (/\ det_call'.ret = None
           /\ last_click_time' = last_click_time
           /\ current_voltage' = current_voltage
           /\ current_jitter' = current_jitter)]_vars

\* C3 witness: a call with saturating flux in time-shift mode, 9 us after
\* the last click, was rejected.
C3_Witness ==
    /\ det_call.called
    /\ det_call.time - det_call.pre_last_click = DEAD_TIME - 1
    /\ FluxGT(det_call.flux, SaturationLimit)
    /\ det_call.mode = "timeshift"
    /\ det_call.ret = None

\* C4: past the dead-time gate and the dark count, a flux above the
\* saturation limit fires with linear-mode telemetry in every attack mode;
\* otherwise the mode selects the time-shift, the zero-day or the normal
\* response.
C4_SaturationFirst ==
    (det_call.called /\ det_call.branch \notin {"dead_time", "dark_count"}) =>
        IF FluxGT(det_call.flux, SaturationLimit)
        THEN /\ det_call.branch = "saturation"
             /\ det_call.ret.some
             /\ last_click_time = det_call.time
             /\ current_voltage = 900 /\ current_jitter = 100
        ELSE /\ det_call.branch =
                   (IF det_call.mode = "timeshift" THEN "timeshift"
                    ELSE IF det_call.mode = "zeroday" THEN "zeroday"
                    ELSE "normal")
             /\ current_voltage = (IF det_call.mode = "zeroday" THEN 650 ELSE 330)
             /\ current_jitter = (IF det_call.mode = "timeshift" THEN 50
                                  ELSE IF det_call.mode = "zeroday" THEN 2800
                                  ELSE 1200)

\* C4 witness: a saturating flux in zero-day mode fired in linear mode.
C4_Witness ==
    /\ det_call.called
    /\ det_call.mode = "zeroday"
    /\ FluxGT(det_call.flux, SaturationLimit)
    /\ det_call.branch = "saturation"
    /\ det_call.ret.some
    /\ current_voltage = 900

Min(a, b) == IF a <= b THEN a ELSE b

\* The last min(n, W) of the n events pushed, in arrival order.
LastPushed ==
    SubSeq(pushed, Len(pushed) - Min(Len(pushed), W) + 1, Len(pushed))

\* C5: after any sequence of pushes the buffer holds exactly the last
\* min(n, W) pushed events in arrival order.
C5_HoldsLastW == buf = LastPushed

\* C5 witness: W+1 events were pushed, the buffer holds the last W of them
\* and the first one, different from all of these, is gone.
C5_Witness ==
    /\ Len(pushed) = W + 1
    /\ buf = SubSeq(pushed, 2, W + 1)
    /\ \A i \in DOMAIN buf : buf[i] # pushed[1]

\* C6: the buffer never holds more than W events; is_ready is false before
\* the W-th push and true from it on, in the buffer and in what the property
\* returns; and no step of the buffer makes is_ready false again.
C6_LengthAndReadiness ==
    /\ [](/\ Len(buf) \in 0..W
          /\ IsReady(buf) <=> (Len(pushed) >= W)
          /\ (ret.some /\ ret.val.op = "is_ready") =>
                (ret.val.value <=> (Len(pushed) >= W))
          /\ (ret.some /\ ret.val.op = "fill_level") =>
                ret.val.value = Min(Len(pushed), W))
    /\ [][IsReady(buf) => IsReady(buf')]_vars

\* C6 witness: is_ready answered true after W+1 pushes.
C6_Witness ==
    /\ Len(pushed) = W + 1
    /\ ret.some
    /\ ret.val.op = "is_ready"
    /\ ret.val.value

Matched(e) == e.alice_basis = e.bob_basis
Differs(e) == e.alice_bit # e.bob_bit

\* The number of events of s that are basis-matched, differ in their bits
\* and have sender basis in bases.
MatchedErrors(s, bases) ==
    Cardinality({i \in DOMAIN s :
                    Matched(s[i]) /\ Differs(s[i]) /\ s[i].alice_basis \in bases})

MatchedCount(s, bases) ==
    Cardinality({i \in DOMAIN s : Matched(s[i]) /\ s[i].alice_basis \in bases})

\* s with the bits of its i-th event replaced.
WithBits(s, i, ab, bb) ==
    [s EXCEPT ![i] = [@ EXCEPT !.alice_bit = ab, !.bob_bit = bb]]

\* s without its i-th event.
Without(s, i) == SubSeq(s, 1, i - 1) \o SubSeq(s, i + 1, Len(s))

\* C7: the three error counts of extract_features count exactly the events
\* with equal bases and different bits; an event with different bases adds
\* to no error count and to no denominator: giving it any other bits, or
\* taking it out of the window, changes none of the six counts, and giving
\* it other bits changes no QBER of calculate_v3_features.
C7_ErrorsOnlyOnMatched ==
    /\ sift.some =>
          LET c == sift.val
          IN  /\ c.n_err   = MatchedErrors(buf, {0, 1})
              /\ c.n_err_r = MatchedErrors(buf, {0})
              /\ c.n_err_d = MatchedErrors(buf, {1})
              /\ c.n_sifted  = MatchedCount(buf, {0, 1})
              /\ c.n_count_r = MatchedCount(buf, {0})
              /\ c.n_count_d = MatchedCount(buf, {1})
              /\ \A i \in DOMAIN buf : ~Matched(buf[i]) =>
                    /\ SiftCounts(Without(buf, i)) = c
                    /\ \A ab \in {0, 1}, bb \in {0, 1} :
                          SiftCounts(WithBits(buf, i, ab, bb)) = c
    /\ v3.some =>
          \A i \in DOMAIN pushed : ~Matched(pushed[i]) =>
              \A ab \in {0, 1}, bb \in {0, 1} :
                  LET other == CalculateV3Features(
                                   RawRows(WithBits(pushed, i, ab, bb)), W)
                  IN  \A k \in DOMAIN pushed :
                        /\ other[k].qber_overall = v3.val[k].qber_overall
                        /\ other[k].qber_rectilinear = v3.val[k].qber_rectilinear
                        /\ other[k].qber_diagonal = v3.val[k].qber_diagonal

\* C7 witness: features were extracted, online and offline, from a full
\* window holding a basis-matched error and an event with different bases
\* and different bits; one error was counted.
C7_Witness ==
    /\ sift.some /\ v3.some
    /\ \E i \in DOMAIN buf : ~Matched(buf[i]) /\ Differs(buf[i])
    /\ \E j \in DOMAIN buf : Matched(buf[j]) /\ Differs(buf[j])
    /\ sift.val.n_err = 1

\* A float in [0, 1]: a finite ratio with a positive denominator.
InUnitInterval(q) == q.k = "num" /\ q.d > 0 /\ 0 <= q.n /\ q.n <= q.d

\* C8: in the fingerprint of a full window each of the three QBER values is
\* a finite number in [0, 1], each error count is at most its denominator,
\* and a QBER whose denominator is zero is 0.0.
C8_QberInUnitInterval ==
    (feat.some /\ feat.val.some) =>
        LET f == feat.val.val
            c == sift.val
        IN  /\ InUnitInterval(f.qber_overall)
            /\ InUnitInterval(f.qber_rectilinear)
            /\ InUnitInterval(f.qber_diagonal)
            /\ c.n_err <= c.n_sifted
            /\ c.n_err_r <= c.n_count_r
            /\ c.n_err_d <= c.n_count_d
            /\ c.n_sifted = 0  => f.qber_overall = Ratio(0, 1)
            /\ c.n_count_r = 0 => f.qber_rectilinear = Ratio(0, 1)
            /\ c.n_count_d = 0 => f.qber_diagonal = Ratio(0, 1)

\* C8 witness: a fingerprint of a full window without a basis-matched event.
C8_Witness ==
    /\ feat.some /\ feat.val.some
    /\ sift.val.n_sifted = 0
    /\ feat.val.val.qber_overall = Ratio(0, 1)

IsZero(q) == q.k = "num" /\ q.n = 0 /\ q.d > 0

NoMatchedError(s) == MatchedErrors(s, {0, 1}) = 0

\* C9: a window without a basis-matched error has all three QBER values
\* 0.0, in the fingerprint of extract_features and in every full-window row
\* of calculate_v3_features, whatever the bits of its events with different
\* bases.
C9_ZeroErrorZeroQber ==
    /\ (feat.some /\ feat.val.some /\ NoMatchedError(buf)) =>
          /\ IsZero(feat.val.val.qber_overall)
          /\ IsZero(feat.val.val.qber_rectilinear)
          /\ IsZero(feat.val.val.qber_diagonal)
    /\ v3.some =>
          \A k \in DOMAIN pushed :
              (k >= W /\ NoMatchedError(SubSeq(pushed, k - W + 1, k))) =>
                  /\ IsZero(v3.val[k].qber_overall)
                  /\ IsZero(v3.val[k].qber_rectilinear)
                  /\ IsZero(v3.val[k].qber_diagonal)

\* C9 witness: both extractors ran on a full window without a basis-matched
\* error that holds a basis-matched event and an event with different bases
\* and different bits.
C9_Witness ==
    /\ feat.some /\ feat.val.some /\ v3.some
    /\ Len(pushed) = W
    /\ NoMatchedError(buf)
    /\ \E i \in DOMAIN buf : ~Matched(buf[i]) /\ Differs(buf[i])
    /\ \E j \in DOMAIN buf : Matched(buf[j])
    /\ IsZero(v3.val[W].qber_overall)

\* C10: the photon_count_rate of a fingerprint equals the events yielded
\* divided by the stream iterations made since the last fingerprint.
C10_RateIsTickFraction ==
    FingerprintTaken =>
        LET rate == feat.val.val.photon_count_rate
        IN  rate.n * ticks = yielded * rate.d

FEATURE_COLUMNS == {"qber_overall", "qber_rectilinear", "qber_diagonal",
                    "detector_voltage", "timing_jitter", "photon_count_rate"}

\* A float that is neither NaN nor infinite.
IsFinite(q) == q.k = "num" /\ q.d > 0

\* C11: extract_features returns None exactly when fewer than W events are
\* buffered and a fingerprint of six finite values exactly when W are; the
\* call leaves the buffer, contents and order, as it was.
C11_NoResultOrFingerprint ==
    /\ [](feat.some =>
            /\ (feat.val = None) <=> (Len(buf) < W)
            /\ feat.val.some <=> (Len(buf) = W)
            /\ feat.val.some =>
                  /\ DOMAIN feat.val.val = FEATURE_COLUMNS
                  /\ \A col \in FEATURE_COLUMNS : IsFinite(feat.val.val[col]))
    /\ [][feat'.some => (buf' = buf /\ pushed' = pushed)]_vars

\* C11 witness: extract_features returned None on a buffer one event short
\* of W.
C11_Witness ==
    /\ feat.some
    /\ feat.val = None
    /\ Len(buf) = W - 1
    /\ W - 1 >= 1

\* C12: an iteration run while the injection is active uses the injection's
\* attack mode and intensity and lowers its countdown by one, making it
\* inactive at zero; an iteration run while no injection is active uses the
\* attack mode and intensity the stream was started with.
C12_InjectionApplied ==
    iter.ran =>
        IF iter.sc_before.active
        THEN /\ iter.attack_mode = iter.sc_before.attack_mode
             /\ iter.intensity_mode = iter.sc_before.intensity_mode
             /\ iter.sc_after.remaining = iter.sc_before.remaining - 1
             /\ iter.sc_after.active <=> (iter.sc_after.remaining > 0)
        ELSE /\ iter.attack_mode = stream.attack_mode
             /\ iter.intensity_mode = stream.intensity_mode

\* C13: every iteration advances the clock by one tick, detection or not,
\* so the clock handed to detect grows from one iteration to the next; and
\* the iteration yields an Event, carrying the bit, exactly when detect
\* returned a bit.
C13_ClockAndYield ==
    /\ [](iter.ran =>
            /\ stream.t = iter.clock + TICK
            /\ det_call.time = iter.clock
            /\ iter.yielded.some <=> iter.result.some
            /\ iter.yielded.some => iter.yielded.val.bob_bit = iter.result.val)
    /\ [][(iter'.ran /\ iter' # iter) =>
            /\ stream'.t = stream.t + TICK
            /\ iter.ran => iter'.clock > iter.clock]_vars

\* C13 witness: an iteration inside the dead time yielded nothing and the
\* clock moved on.
C13_Witness ==
    /\ iter.ran
    /\ det_call.branch = "dead_time"
    /\ iter.yielded = None
    /\ stream.t = iter.clock + TICK
    /\ iter.clock > 0

\* C14: an iteration of the stream that starts after stop() has set the
\* flag ends the pipeline loop, also when it yields no Event; it pushes no
\* event and emits no result.
C14_StopSeenNextTick ==
    /\ [](iter.ran /\ ~iter.running => pipeline_done)
    /\ [][(iter'.ran /\ iter' # iter /\ ~iter'.running) =>
            (pushed' = pushed /\ buf' = buf /\ emitted' = emitted)]_vars

\* The positions in steps at which op was applied to path.
StepsAt(steps, op, path) ==
    {i \in 1..Len(steps) : steps[i] = Step(op, path)}

\* C15: constructing an IDSEngine raises FileNotFoundError when either
\* artefact is missing, and then nothing was loaded; every load comes after
\* the test of both paths; no test or load is made twice; an engine is
\* returned only with both models loaded, and none with exactly one.
C15_BothOrNothing ==
    ids_init.called =>
        LET out == ids_init.out
            loads == {i \in 1..Len(out.steps) : out.steps[i].op = "load"}
        IN /\ (ids_init.rf_path \notin ids_init.files
                  \/ ids_init.svm_path \notin ids_init.files)
                 => /\ out.error = Some("FileNotFoundError")
                    /\ out.object = None
                    /\ loads = {}
                    /\ out.attrs = {}
           /\ \A i \in loads :
                 /\ \E j \in 1..(i - 1) : out.steps[j] = Step("exists", ids_init.rf_path)
                 /\ \E j \in 1..(i - 1) : out.steps[j] = Step("exists", ids_init.svm_path)
           /\ Cardinality(StepsAt(out.steps, "load", ids_init.rf_path)) <=
                 (IF ids_init.rf_path = ids_init.svm_path THEN 2 ELSE 1)
           /\ Cardinality(StepsAt(out.steps, "load", ids_init.svm_path)) <=
                 (IF ids_init.rf_path = ids_init.svm_path THEN 2 ELSE 1)
           /\ Len(out.steps) <= 4
           /\ out.object.some <=> ~out.error.some
           /\ out.object.some =>
                 /\ {"_rf", "_svm"} \subseteq out.attrs
                 /\ out.object.val._rf = ids_init.rf_path
                 /\ out.object.val._svm = ids_init.svm_path
           /\ ~(out.object.some /\ Cardinality(out.attrs \cap {"_rf", "_svm"}) = 1)

\* C15 witness: the forest artefact exists and unpickles, the novelty
\* artefact is missing, and the construction raised without loading.
C15_Witness ==
    /\ ids_init.called
    /\ ids_init.rf_path \in ids_init.unpickles
    /\ ids_init.svm_path \notin ids_init.files
    /\ ids_init.out.error = Some("FileNotFoundError")
    /\ ids_init.out.attrs = {}

\* C16: from_label with a label it does not know raises ValueError and
\* makes no object; measure with a basis it does not know raises
\* ValueError, draws no outcome and leaves rho as it was.
C16_BadArgumentRaises ==
    /\ (qcall.op = "from_label" /\ qcall.arg \notin {"H", "V", "D", "A"}) =>
          /\ qcall.error = Some("ValueError")
          /\ qcall.result = None
          /\ qstate = qcall.before
    /\ (qcall.op = "measure" /\ qcall.arg \notin {"rectilinear", "diagonal"}) =>
          /\ qcall.error = Some("ValueError")
          /\ qcall.result = None
          /\ ~qcall.drew
          /\ qstate = qcall.before

\* C16 witness: measure("circular") was refused on a state that either
\* projector of the rectilinear basis would have changed.
C16_Witness ==
    /\ qcall.op = "measure"
    /\ qcall.arg = "circular"
    /\ qcall.error.some
    /\ qstate.val.num[1][2] # <<0, 0>>

IsUnitTrace(rho) == Tr(rho.num) = <<rho.den, 0>>
IsHermitian(rho) == rho.num = Dagger(rho.num)
\* Tr(rho^2) = 1
IsPure(rho) == Tr(MatMul(rho.num, rho.num)) = <<rho.den * rho.den, 0>>

OutcomeLabel == [rectilinear |-> <<"H", "V">>, diagonal |-> <<"D", "A">>]

\* C18: a measure call that returns gives 0 or 1 and leaves the pure basis
\* state of that outcome, whatever the state before it.
C18_CollapseToOutcome ==
    (qcall.op = "measure" /\ ~qcall.error.some) =>
        /\ qcall.result.some
        /\ qcall.result.val \in {0, 1}
        /\ qstate = FromLabelOp(OutcomeLabel[qcall.arg][qcall.result.val + 1]).object
        /\ IsPure(qstate.val)

\* C18 witness: a mixed state, neither pure nor fully mixed, measured in the
\* diagonal basis gave 1.
C18_Witness ==
    /\ qcall.op = "measure"
    /\ qcall.arg = "diagonal"
    /\ qcall.result = Some(1)
    /\ ~IsPure(qcall.before.val)
    /\ qcall.before.val.num[1][2] # <<0, 0>>

EvaluationCounts(n) == {k \in 1..n : k >= W /\ k % EvalEvery = 0}

\* The W events pushed last, once W were pushed.
RecentWindow(events) == SubSeq(events, Len(events) - W + 1, Len(events))

RecordFields == {"verdict", "rf_prediction", "rf_confidence", "class_probs",
                 "svm_anomaly", "flagged", "vitals"}

DetectStep == det_call'.called /\ det_call' # det_call

\* C21: a detect call that returns a bit leaves last_click_time at the time
\* of the call; a call that returns no event leaves last_click_time as it
\* was; the dark count and the saturation branch always return a bit; a
\* dead-time rejection changes neither voltage, jitter nor attack_mode.
C21_FireStampsTime ==
    [][DetectStep =>
         /\ det_call'.ret.some => last_click_time' = det_call'.time
         /\ det_call'.ret = None => last_click_time' = last_click_time
         /\ det_call'.branch \in {"dark_count", "saturation"} => det_call'.ret.some
         /\ det_call'.branch = "dead_time" =>
               /\ det_call'.ret = None
               /\ current_voltage' = current_voltage
               /\ current_jitter' = current_jitter
               /\ attack_mode' = attack_mode]_vars

\* C21 witness: in time-shift mode a pulse past the dead time missed the
\* gate; the telemetry was written and last_click_time kept.
C21_Witness ==
    /\ det_call.called
    /\ det_call.branch = "timeshift"
    /\ det_call.ret = None
    /\ det_call.time - det_call.pre_last_click >= DEAD_TIME
    /\ det_call.pre_last_click > INIT_LAST_CLICK
    /\ last_click_time = det_call.pre_last_click
    /\ current_jitter = 50

\* The blocks a complete inject_attack call leaves, and the block of
\* construction.
CompleteBlocks ==
    {[active |-> FALSE, attack_mode |-> "none", intensity_mode |-> "single_photon",
      remaining |-> 0]}
    \cup {[active |-> TRUE, attack_mode |-> a,
           intensity_mode |-> IF a = "blinding" THEN "blinding" ELSE "single_photon",
           remaining |-> n] : a \in InjectedAttacks, n \in 1..MaxDuration}

\* C22: the injection block an iteration of the stream meets, when it is
\* active, is the block of one complete inject_attack call (attack mode,
\* intensity, countdown and active flag of the same call), never fields of
\* two calls together.
C22_TickSeesWholeBlock ==
    (iter.ran /\ iter.sc_before.active) => iter.sc_before \in CompleteBlocks

\* C23: an iteration in which detect returned the bit 0 yields an Event with
\* bob_bit 0, and the worker loop, unless stopped, pushes it into the
\* window; an iteration yields nothing only when detect returned None.
C23_ZeroBitKept ==
    iter.ran =>
        /\ iter.result = Some(0) =>
              /\ iter.yielded.some
              /\ iter.yielded.val.bob_bit = 0
              /\ iter.running =>
                    /\ pushed # <<>>
                    /\ pushed[Len(pushed)] = iter.yielded.val
                    /\ buf[Len(buf)] = iter.yielded.val
        /\ iter.yielded = None <=> iter.result = None

\* C23 witness: detect returned 0 past the dark count and the Event with
\* bob_bit 0 is the newest of the window.
C23_Witness ==
    /\ iter.ran
    /\ iter.result = Some(0)
    /\ det_call.branch = "normal"
    /\ buf # <<>>
    /\ buf[Len(buf)].bob_bit = 0
    /\ buf[Len(buf)] = iter.yielded.val

\* Whether the text holds a line of the given wording.
HasLine(text, wording) == \E i \in DOMAIN text : text[i].text = wording

StatusWordings == {"WARNING: NEAR-CRITICAL NOISE LEVELS", "CAUTION: SUSPICIOUS ACTIVITY",
                   "SYSTEM SECURE"}

\* C24: for prediction "normal" the report holds exactly one of the three
\* status lines: WARNING exactly when qber > 0.08, CAUTION exactly when
\* 0.05 < qber <= 0.08, SYSTEM SECURE exactly when qber <= 0.05.
C24_OneStatusByQber ==
    \A a \in DOMAIN explain_calls :
       LET call == explain_calls[a]
           q == call.vitals.qber
       IN call.prediction = "normal" =>
            /\ Cardinality({i \in DOMAIN call.text :
                               call.text[i].text \in StatusWordings}) = 1
            /\ HasLine(call.text, "WARNING: NEAR-CRITICAL NOISE LEVELS") <=> q > 8000
            /\ HasLine(call.text, "CAUTION: SUSPICIOUS ACTIVITY")
                  <=> (5000 < q /\ q <= 8000)
            /\ HasLine(call.text, "SYSTEM SECURE") <=> q <= 5000

\* C24 witness: qber of exactly 0.08 was reported as CAUTION and qber of
\* exactly 0.05 as SYSTEM SECURE.
C24_Witness ==
    /\ Len(explain_calls) >= 2
    /\ explain_calls[1].prediction = "normal"
    /\ explain_calls[1].vitals.qber = 8000
    /\ HasLine(explain_calls[1].text, "CAUTION: SUSPICIOUS ACTIVITY")
    /\ explain_calls[2].prediction = "normal"
    /\ explain_calls[2].vitals.qber = 5000
    /\ HasLine(explain_calls[2].text, "SYSTEM SECURE")

\* C25: the report holds the ANOMALY line exactly when the prediction is
\* not attack_blinding and voltage > 5.0 and jitter > 1.0.
C25_AnomalyLine ==
    \A a \in DOMAIN explain_calls :
       LET call == explain_calls[a]
       IN HasLine(call.text, "ANOMALY: High Voltage but Normal Jitter")
            <=> /\ call.prediction # "attack_blinding"
                /\ call.vitals.voltage > 5000
                /\ call.vitals.jitter > 1000

\* C25 witness: the same high voltage and normal jitter gave the line under
\* attack_timeshift and none under attack_blinding.
C25_Witness ==
    /\ Len(explain_calls) >= 2
    /\ explain_calls[1].prediction = "attack_blinding"
    /\ explain_calls[1].vitals.voltage > 5000
    /\ explain_calls[1].vitals.jitter > 1000
    /\ ~HasLine(explain_calls[1].text, "ANOMALY: High Voltage but Normal Jitter")
    /\ explain_calls[2].prediction = "attack_timeshift"
    /\ explain_calls[2].vitals.voltage = explain_calls[1].vitals.voltage
    /\ explain_calls[2].vitals.jitter = explain_calls[1].vitals.jitter
    /\ HasLine(explain_calls[2].text, "ANOMALY: High Voltage but Normal Jitter")

\* The three QBER values of a fingerprint or of a row.
Qbers(x) == [qber_overall |-> x.qber_overall,
             qber_rectilinear |-> x.qber_rectilinear,
             qber_diagonal |-> x.qber_diagonal]

\* The lab sifting was run on the events the window holds now.
LabCurrent == lab.called /\ lab.events = buf

\* C26: on the same W events, extract_features, the row of
\* calculate_v3_features that closes the window and the sifting block of
\* run_lab_experiment give the same three QBER values.
C26_SiftingsAgree ==
    /\ (feat.some /\ feat.val.some /\ v3.some)
          => Qbers(v3.val[Len(pushed)]) = Qbers(feat.val.val)
    /\ (feat.some /\ feat.val.some /\ LabCurrent)
          => lab.qber = Qbers(feat.val.val)
    /\ (v3.some /\ Len(pushed) >= W /\ LabCurrent)
          => lab.qber = Qbers(v3.val[Len(pushed)])

\* C26 witness: all three were computed on a window whose matched events
\* are all rectilinear, one of them in error: the diagonal QBER is the 0 of
\* a zero denominator, the overall one is not 0.
C26_Witness ==
    /\ feat.some /\ feat.val.some /\ v3.some /\ LabCurrent
    /\ sift.some
    /\ sift.val.n_count_d = 0
    /\ sift.val.n_err > 0
    /\ lab.qber.qber_diagonal = Ratio(0, 1)
    /\ lab.qber.qber_overall # Ratio(0, 1)
    /\ Len(pushed) > W

\* An iteration of the stream has just run.
IterStep == iter'.ran /\ iter' # iter

\* C27: in the stream (tick 1 us, dead time 10 us) an iteration fewer than
\* ten ticks after the last yielding one yields no Event, whatever the
\* attack mode and the intensity; a yielding iteration is at least ten
\* ticks after the previous yielding one, which the detector's last-fire
\* time records; and the first iteration, at clock 0, is never blocked by
\* the dead time.
C27_OneEventPerDeadTime ==
    /\ [](iter.ran /\ iter.clock = 0 => det_call.branch # "dead_time")
    /\ [][IterStep =>
            LET since == iter'.clock - last_click_time
            IN  /\ since < DEAD_TIME =>
                      /\ iter'.yielded = None
                      /\ last_click_time' = last_click_time
                /\ iter'.yielded.some =>
                      /\ since >= DEAD_TIME
                      /\ last_click_time' = iter'.clock
                /\ iter'.yielded = None => last_click_time' = last_click_time
                /\ last_click_time # INIT_LAST_CLICK => since >= TICK]_vars

\* C27 witness: under blinding light the ninth iteration after a yielding
\* one was blocked by the dead time.
C27_Witness ==
    /\ iter.ran
    /\ iter.intensity_mode = "blinding"
    /\ iter.clock = 9 * TICK
    /\ last_click_time = 0
    /\ det_call.branch = "dead_time"
    /\ iter.yielded = None

\* What infer returns for the same classifier answer when the novelty
\* detector answers the other way.
OtherNovelty(r) == Infer(IF r.svm_anomaly THEN 1 ELSE -1, r.class_probs)

StatusesIn(text) == {w \in StatusWordings : HasLine(text, w)}

Runs(w) == workers[w].state \in {"started", "looping"}

====
